---------------------------- MODULE Spec2Model ----------------------------
(* OAuth proxy of codex-action: the token manager (loadTokens,             *)
(* shouldRefreshToken, refreshAccessToken, fetchFromRelay,                 *)
(* ensureValidToken), the proxy's start()/stop() and its request handler   *)
(* handleRequest, as a state machine over one shared TokenState and a few  *)
(* concurrently scheduled handlers.  Each action is one run-to-completion  *)
(* segment of the event loop: the code between two awaits.                 *)
(* Spec schedules several handlers over the shared token state and takes   *)
(* the response adapter in one step; SpecFlow serves one request at a time *)
(* and follows start() and the response adapter (handleUpstreamResponse,   *)
(* pipeStream, convertSseToJson, parseSseStream) await by await;           *)
(* SpecRewrite follows the rewrite of one request (transformRequestBody,   *)
(* filterInput, normalizeModel, createHeaders) over the bodies and headers *)
(* a client can send.  SpecFault is SpecFlow with getReader() of          *)
(* pipeStream allowed to throw, SpecDisconnect is SpecFlow with the client *)
(* allowed to close the connection while a response is piped.              *)
EXTENDS Integers, Sequences, FiniteSets, TLC

----------------------------------------------------------------------------
(* Bounds of the model *)

NumHandlers == 2      \* request handlers that may be in flight together
MaxRequests == 2      \* requests accepted over a run
MaxTicks == 2         \* clock advances over a run

(* Program constants *)

RefreshMarginMs == 60000

TickMs == RefreshMarginMs \div 2          \* one clock advance: 30 000 ms
StartNow == RefreshMarginMs               \* Date.now() at construction

Starter == 0                              \* the caller of start()
Handlers == 1..NumHandlers
Procs == {Starter} \cup Handlers

----------------------------------------------------------------------------
(* JWTs.  A token string is represented by what decodeJWT reads of it: the *)
(* number of dot-delimited parts, whether the middle part decodes to JSON, *)
(* the two claims of the payload ("" and 0 are the falsy/absent values),   *)
(* and a signature part that tells tokens apart.                           *)

Tok(parts, json, acct, exp, sig) ==
    [parts |-> parts, json |-> json, acct |-> acct, exp |-> exp, sig |-> sig]

NoToken == Tok(1, FALSE, "", 0, "")       \* undefined / the empty string

SeedTokens ==
    { Tok(3, TRUE, "acctA", 150, "s1"),   \* expires 90 s after StartNow
      Tok(3, TRUE, "acctA", 0, "s2"),     \* no exp claim
      Tok(3, TRUE, "", 150, "s3"),        \* no account claim
      Tok(2, TRUE, "acctA", 150, "s4") }  \* not three parts

FreshA == Tok(3, TRUE, "acctA", 0, "f1")
FreshB == Tok(3, TRUE, "acctB", 0, "f2")
FreshNoAccount == Tok(3, TRUE, "", 0, "f3")

FreshTokens == { FreshA, FreshB, FreshNoAccount }

NullPayload == [isNull |-> TRUE, acct |-> "", exp |-> 0]

decodeJWT(token) ==
    IF token.parts # 3 THEN NullPayload
    ELSE IF ~token.json THEN NullPayload
    ELSE [isNull |-> FALSE, acct |-> token.acct, exp |-> token.exp]

(* getAccountId: [threw, value] *)
getAccountId(accessToken) ==
    LET payload == decodeJWT(accessToken)
        accountId == IF payload.isNull THEN "" ELSE payload.acct
    IN IF accountId = "" THEN [threw |-> TRUE, value |-> ""]
       ELSE [threw |-> FALSE, value |-> accountId]

----------------------------------------------------------------------------
(* Token state *)

MkState(access, refresh, expires, account, url, key) ==
    [accessToken |-> access, refreshToken |-> refresh, expires |-> expires,
     accountId |-> account, relayUrl |-> url, relayKey |-> key]

loadTokens_expiryFromNow(accessToken, refreshToken) ==
    LET payload == decodeJWT(accessToken)
        expires == IF payload.exp # 0 THEN payload.exp * 1000
                   ELSE StartNow + 10 * RefreshMarginMs
        account == getAccountId(accessToken)
    IN [threw |-> account.threw,
        state |-> MkState(accessToken, refreshToken, expires, account.value, "", "")]

(* loadTokens: [threw, state] *)
loadTokens(accessToken, refreshToken) ==
    LET payload == decodeJWT(accessToken)
        expires == IF payload.exp # 0 THEN payload.exp * 1000 ELSE 0
        account == getAccountId(accessToken)
    IN [threw |-> account.threw,
        state |-> MkState(accessToken, refreshToken, expires, account.value, "", "")]

(* createOAuthProxy: the token state it builds, or a throw *)
createOAuthProxy(accessToken, refreshToken, relayUrl, relayKey) ==
    LET loaded == loadTokens(accessToken, refreshToken)
    IN [threw |-> loaded.threw,
        state |-> IF relayUrl # ""
                  THEN [loaded.state EXCEPT !.relayUrl = relayUrl, !.relayKey = relayKey]
                  ELSE loaded.state]

shouldRefreshToken_inclusive(state, t) ==
    state.expires - RefreshMarginMs <= t

shouldRefreshToken(state, t) == state.expires - RefreshMarginMs < t

----------------------------------------------------------------------------
(* Token refresh *)

(* What the network gives a refresh call: the fetch or the JSON parse      *)
(* throws, or a response with a status and a JSON body.  A missing string  *)
(* field is NoToken / "", a missing or non-numeric number has isNum FALSE. *)
NetResp(throws, ok, access, refresh, num, isNum) ==
    [throws |-> throws, ok |-> ok, access_token |-> access,
     refresh_token |-> refresh, num |-> num, isNum |-> isNum]

AuthResponses ==
    { NetResp(TRUE, FALSE, NoToken, "", 0, FALSE),       \* transport error
      NetResp(FALSE, FALSE, NoToken, "", 0, FALSE),      \* non-2xx status
      NetResp(FALSE, TRUE, NoToken, "r2", 120, TRUE),    \* no access_token
      NetResp(FALSE, TRUE, FreshA, "", 120, TRUE),       \* no refresh_token
      NetResp(FALSE, TRUE, FreshA, "r2", 0, FALSE) }     \* no numeric expires_in
    \cup { NetResp(FALSE, TRUE, a, "r2", n, TRUE) :
             a \in FreshTokens, n \in {30, 120} }

RelayResponses ==
    { NetResp(TRUE, FALSE, NoToken, "", 0, FALSE),       \* transport error
      NetResp(FALSE, FALSE, NoToken, "", 0, FALSE),      \* non-2xx status
      NetResp(FALSE, TRUE, NoToken, "", 0, TRUE),        \* no access_token
      NetResp(FALSE, TRUE, FreshA, "", 0, FALSE) }       \* no numeric expires_at
    \cup { NetResp(FALSE, TRUE, a, "", n, TRUE) :
             a \in FreshTokens,
             n \in {StartNow + TickMs, StartNow + 4 * TickMs} }

(* No refresh call ended in the last step *)
NoNet == [kind |-> "none", resp |-> NetResp(FALSE, FALSE, NoToken, "", 0, FALSE)]

Failed == [type |-> "failed", access |-> NoToken, refresh |-> "", expires |-> 0]

refreshAccessToken_noRefreshTokenCheck(refreshToken, net, t) ==
    IF net.throws THEN Failed
    ELSE IF ~net.ok THEN Failed
    ELSE IF net.access_token = NoToken \/ ~net.isNum
    THEN Failed
    ELSE [type |-> "success", access |-> net.access_token,
          refresh |-> net.refresh_token, expires |-> t + net.num * 1000]

(* refreshAccessToken: the tagged result *)
refreshAccessToken(refreshToken, net, t) ==
    IF net.throws THEN Failed
    ELSE IF ~net.ok THEN Failed
    ELSE IF net.access_token = NoToken \/ net.refresh_token = "" \/ ~net.isNum
    THEN Failed
    ELSE [type |-> "success", access |-> net.access_token,
          refresh |-> net.refresh_token, expires |-> t + net.num * 1000]

fetchFromRelay_staleAccount(state, net) ==
    IF net.throws \/ ~net.ok THEN [threw |-> TRUE, state |-> state]
    ELSE IF net.access_token = NoToken \/ ~net.isNum
    THEN [threw |-> TRUE, state |-> state]
    ELSE [threw |-> getAccountId(net.access_token).threw,
          state |-> [state EXCEPT !.accessToken = net.access_token,
                                  !.expires = net.num]]

(* fetchFromRelay: [threw, state] with the state as the throw leaves it *)
fetchFromRelay(state, net) ==
    IF net.throws \/ ~net.ok THEN [threw |-> TRUE, state |-> state]
    ELSE IF net.access_token = NoToken \/ ~net.isNum
    THEN [threw |-> TRUE, state |-> state]
    ELSE LET s1 == [state EXCEPT !.accessToken = net.access_token,
                                 !.expires = net.num]
             account == getAccountId(net.access_token)
         IN IF account.threw THEN [threw |-> TRUE, state |-> s1]
            ELSE [threw |-> FALSE,
                  state |-> [s1 EXCEPT !.accountId = account.value]]

ensureValidEntry_refreshTokenFirst(state, t) ==
    IF ~shouldRefreshToken(state, t) THEN "return"
    ELSE IF state.refreshToken # "" THEN "auth"
    ELSE "relay"

ensureValidEntry_relayFirst(state, t) ==
    IF state.relayUrl # "" THEN "relay"
    ELSE IF ~shouldRefreshToken(state, t) THEN "return"
    ELSE "auth"

(* ensureValidToken up to its first await: what it goes on to do *)
ensureValidEntry(state, t) ==
    IF ~shouldRefreshToken(state, t) THEN "return"
    ELSE IF state.relayUrl # "" THEN "relay"
    ELSE "auth"

ensureValidApply_keepsRefreshToken(state, result) ==
    IF result.type = "failed" THEN [threw |-> TRUE, state |-> state]
    ELSE LET s1 == [state EXCEPT !.accessToken = result.access,
                                 !.expires = result.expires]
             account == getAccountId(result.access)
         IN IF account.threw THEN [threw |-> TRUE, state |-> s1]
            ELSE [threw |-> FALSE,
                  state |-> [s1 EXCEPT !.accountId = account.value]]

(* ensureValidToken after refreshAccessToken resolved: [threw, state] *)
ensureValidApply(state, result) ==
    IF result.type = "failed" THEN [threw |-> TRUE, state |-> state]
    ELSE LET s1 == [state EXCEPT !.accessToken = result.access,
                                 !.refreshToken = result.refresh,
                                 !.expires = result.expires]
             account == getAccountId(result.access)
         IN IF account.threw THEN [threw |-> TRUE, state |-> s1]
            ELSE [threw |-> FALSE,
                  state |-> [s1 EXCEPT !.accountId = account.value]]



----------------------------------------------------------------------------
(* Requests and responses *)

ResponsesPath == <<"v1", "responses">>

Urls == { ResponsesPath, <<"v1", "responses", "extra">>, <<"other">> }
Methods == { "POST", "GET" }

(* String.prototype.startsWith, on a path given as its segments *)
startsWith(s, prefix) ==
    Len(s) >= Len(prefix) /\ SubSeq(s, 1, Len(prefix)) = prefix

(* The route test of handleRequest: TRUE when the request is refused *)
routeRefused(method, url) ==
    method # "POST" \/ ~startsWith(url, ResponsesPath)

(* A raw request body, by whether JSON.parse accepts it *)
RawBodies == { "json", "garbage" }

parseThrows_never(raw) == FALSE

(* JSON.parse(rawBody) inside its try: TRUE when it throws *)
parseThrows(raw) == raw # "json"

NoRequest == [method |-> "", url |-> <<>>, raw |-> "unread"]
NoCall == [kind |-> "none", refreshToken |-> "", relayUrl |-> "",
           relayKey |-> "", peer |-> NoToken]
NoHeaders == [sent |-> FALSE, authorization |-> NoToken, contentType |-> "",
              accountId |-> "", beta |-> "", originator |-> "", accept |-> ""]
NoResponse == [heads |-> <<>>, ctype |-> <<>>, body |-> <<>>, ends |-> 0]

(* The backend response as the adapter has seen it so far: wasStreaming,   *)
(* the status, whether it has a body, the text read of an error body, the  *)
(* chunks read, how the reading ended ("" while it goes on), and whether   *)
(* the downstream connection has reported closed.                          *)
NoIo == [streaming |-> FALSE, status |-> 0, hasBody |-> FALSE, text |-> <<>>,
         got |-> <<>>, fin |-> "", closed |-> FALSE]

(* createHeaders: the six headers of the backend call (authorization is   *)
(* "Bearer " and the token); sent marks that the call was made            *)
createHeaders(accessToken, accountId) ==
    [sent |-> TRUE, authorization |-> accessToken,
     contentType |-> "application/json", accountId |-> accountId,
     beta |-> "responses=experimental", originator |-> "codex_cli_rs",
     accept |-> "text/event-stream"]

(* What the backend call gives: the fetch throws, or a status and whether  *)
(* the body carries a usage-limit marker.                                   *)
UpstreamResponses ==
    { [throws |-> TRUE, status |-> 0, limit |-> FALSE],
      [throws |-> FALSE, status |-> 200, limit |-> FALSE],
      [throws |-> FALSE, status |-> 404, limit |-> FALSE],
      [throws |-> FALSE, status |-> 404, limit |-> TRUE],
      [throws |-> FALSE, status |-> 500, limit |-> FALSE] }

(* handleUpstreamResponse: the downstream status *)
downstreamStatus(upstream) ==
    IF upstream.status = 404 THEN (IF upstream.limit THEN 429 ELSE 404)
    ELSE upstream.status

Range(seq) == { seq[i] : i \in 1..Len(seq) }

----------------------------------------------------------------------------
(* The response adapter: handleUpstreamResponse, pipeStream,               *)
(* convertSseToJson, parseSseStream, isUsageLimitBody.  A text is a        *)
(* sequence of pieces; a piece is a newline, the "data: " prefix, the JSON *)
(* text of one event, or some other run of characters without a newline.   *)
(* A chunk of the upstream body is a text; chunk boundaries fall between   *)
(* pieces.                                                                  *)

MaxChunks == 2        \* chunks read of one upstream body

NL == "\n"
DataPrefix == "data: "

(* JSON.parse of a piece: what the parsed value's type and response are.   *)
(* A piece that is not in the table does not parse.                        *)
Events ==
    [ev_delta |-> [type |-> "response.output_text.delta", response |-> "undefined"],
     ev_done_r1 |-> [type |-> "response.done", response |-> "r1"],
     ev_completed_r2 |-> [type |-> "response.completed", response |-> "r2"],
     ev_done_bare |-> [type |-> "response.done", response |-> "undefined"]]

ChunkValues ==
    { <<DataPrefix, "ev_delta", NL, NL>>,
      <<DataPrefix, "ev_done_r1", NL, NL>>,
      <<DataPrefix, "ev_completed_r2", NL>>,
      <<DataPrefix, "ev_done_bare", NL>>,
      <<DataPrefix>>,
      <<"ev_done_r1", NL, DataPrefix, "{garbage", NL>> }

(* fullText += decoder.decode(value): the chunks read, concatenated *)
RECURSIVE Concat(_)
Concat(chunks) ==
    IF chunks = <<>> THEN <<>> ELSE Head(chunks) \o Concat(Tail(chunks))

(* sseText.split("\n"): the lines of text from piece i on, the current    *)
(* line having begun at piece from                                          *)
RECURSIVE splitFrom(_, _, _)
splitFrom(text, from, i) ==
    IF i > Len(text) THEN <<SubSeq(text, from, Len(text))>>
    ELSE IF text[i] = NL
    THEN <<SubSeq(text, from, i - 1)>> \o splitFrom(text, i + 1, i + 1)
    ELSE splitFrom(text, from, i + 1)

split(text) == splitFrom(text, 1, 1)

(* JSON.parse(line.substring(6)) inside its try: [threw, type, response] *)
parseData(line) ==
    LET rest == Tail(line)
    IN IF Len(rest) = 1 /\ rest[1] \in DOMAIN Events
       THEN [threw |-> FALSE, type |-> Events[rest[1]].type,
             response |-> Events[rest[1]].response]
       ELSE [threw |-> TRUE, type |-> "", response |-> "undefined"]

RECURSIVE parseLines_haltsOnMalformed(_)
parseLines_haltsOnMalformed(lines) ==
    IF lines = <<>> THEN "null"
    ELSE IF Len(Head(lines)) = 0 \/ Head(Head(lines)) # DataPrefix
    THEN parseLines_haltsOnMalformed(Tail(lines))
    ELSE LET data == parseData(Head(lines))
         IN IF data.threw THEN "null"
            ELSE IF data.type \in {"response.done", "response.completed"}
            THEN data.response
            ELSE parseLines_haltsOnMalformed(Tail(lines))

(* The loop of parseSseStream over the lines *)
RECURSIVE parseLines(_)
parseLines(lines) ==
    IF lines = <<>> THEN "null"
    ELSE IF Len(Head(lines)) = 0 \/ Head(Head(lines)) # DataPrefix
    THEN parseLines(Tail(lines))
    ELSE LET data == parseData(Head(lines))
         IN IF ~data.threw
               /\ data.type \in {"response.done", "response.completed"}
            THEN data.response
            ELSE parseLines(Tail(lines))

parseSseStream(sseText) == parseLines(split(sseText))

(* JSON.stringify(finalResponse): the JSON text of the payload *)
stringify(value) == <<"{", value, "}">>

(* A body of a non-2xx backend response, and String.prototype.toLowerCase  *)
(* on its pieces                                                            *)
ErrorBodies ==
    { <<"{detail:", "Not Found", "}">>,
      <<"{code:", "Usage_Limit_Reached", "}">>,
      <<"rate_limit_exceeded">>,
      <<"usage_limit">> }

toLowerCase(piece) ==
    CASE piece = "Not Found" -> "not found"
      [] piece = "Usage_Limit_Reached" -> "usage_limit_reached"
      [] OTHER -> piece

UsageLimitMarkers ==
    { "usage_limit_reached", "usage_not_included", "rate_limit_exceeded",
      "usage limit" }

isUsageLimitBody_caseSensitive(body) ==
    \E i \in 1..Len(body) : body[i] \in UsageLimitMarkers

(* isUsageLimitBody: the regular expression finds a marker in the          *)
(* lower-cased body                                                         *)
isUsageLimitBody(body) ==
    \E i \in 1..Len(body) : toLowerCase(body[i]) \in UsageLimitMarkers

(* Response.ok *)
isOk(status) == status >= 200 /\ status <= 299

(* What the backend fetch gives: a throw, or a response with a status and, *)
(* for a 2xx, with or without a body                                        *)
BackendResponses ==
    { [throws |-> TRUE, status |-> 0, hasBody |-> FALSE],
      [throws |-> FALSE, status |-> 200, hasBody |-> TRUE],
      [throws |-> FALSE, status |-> 200, hasBody |-> FALSE],
      [throws |-> FALSE, status |-> 404, hasBody |-> TRUE],
      [throws |-> FALSE, status |-> 500, hasBody |-> TRUE] }

end_leavesOpen(r) == r

(* ServerResponse.writeHead, write, end *)
writeHead(r, status, contentType) ==
    [r EXCEPT !.heads = Append(@, status), !.ctype = Append(@, contentType)]

write(r, text) == [r EXCEPT !.body = Append(@, text)]

end(r) == [r EXCEPT !.ends = @ + 1]

(* handleUpstreamResponse for a 404 or another non-2xx status, after       *)
(* upstream.text()                                                          *)
errorPassthrough(r, status, body) ==
    LET out == IF status = 404
               THEN (IF isUsageLimitBody(body) THEN 429 ELSE 404)
               ELSE status
    IN end(write(writeHead(r, out, "application/json"), body))

pipeChunk_keepsLatest(r, value) == [r EXCEPT !.body = <<value>>]

(* pipeStream: one chunk read *)
pipeChunk(r, value) == write(r, value)

convertAtEnd_needsTerminal(r, fullText) ==
    LET finalResponse == parseSseStream(fullText)
    IN IF finalResponse \notin {"null", "undefined"}
       THEN end(write(writeHead(r, 200, "application/json; charset=utf-8"),
                      stringify(finalResponse)))
       ELSE end(write(writeHead(r, 502, "application/json"),
                      <<"No response.done event">>))

(* convertSseToJson after its read loop ended without a throw *)
convertAtEnd(r, fullText) ==
    LET finalResponse == parseSseStream(fullText)
    IN IF finalResponse \notin {"null", "undefined"}
       THEN end(write(writeHead(r, 200, "application/json; charset=utf-8"),
                      stringify(finalResponse)))
       ELSE end(write(writeHead(r, 200, "text/event-stream; charset=utf-8"),
                      fullText))

(* convertSseToJson: the catch around its read loop *)
convertReadError(r, fullText) ==
    end(write(writeHead(r, 502, "application/json"),
              <<"Failed to read upstream response">>))

----------------------------------------------------------------------------
(* Model names.  A JavaScript value that is not an object is a record of   *)
(* its type and its text: Str("gpt-5") is the string, Undefined the value  *)
(* of an absent property.  A string is a TLA+ string, character by         *)
(* character.                                                               *)

Str(s) == [t |-> "string", s |-> s]
Num(s) == [t |-> "number", s |-> s]
Bool(s) == [t |-> "boolean", s |-> s]
Null == [t |-> "null", s |-> ""]
Undefined == [t |-> "undefined", s |-> ""]

(* ToBoolean *)
truthy(v) ==
    CASE v.t \in {"undefined", "null"} -> FALSE
      [] v.t = "boolean" -> v.s = "true"
      [] v.t = "number" -> v.s # "0"
      [] v.t = "string" -> v.s # ""
      [] OTHER -> TRUE

MODEL_MAP ==
    "gpt-5.1-codex" :> "gpt-5.1-codex" @@
    "gpt-5.1-codex-low" :> "gpt-5.1-codex" @@
    "gpt-5.1-codex-medium" :> "gpt-5.1-codex" @@
    "gpt-5.1-codex-high" :> "gpt-5.1-codex" @@
    "gpt-5.1-codex-max" :> "gpt-5.1-codex-max" @@
    "gpt-5.1-codex-max-low" :> "gpt-5.1-codex-max" @@
    "gpt-5.1-codex-max-medium" :> "gpt-5.1-codex-max" @@
    "gpt-5.1-codex-max-high" :> "gpt-5.1-codex-max" @@
    "gpt-5.1-codex-max-xhigh" :> "gpt-5.1-codex-max" @@
    "gpt-5.2" :> "gpt-5.2" @@
    "gpt-5.2-none" :> "gpt-5.2" @@
    "gpt-5.2-low" :> "gpt-5.2" @@
    "gpt-5.2-medium" :> "gpt-5.2" @@
    "gpt-5.2-high" :> "gpt-5.2" @@
    "gpt-5.2-xhigh" :> "gpt-5.2" @@
    "gpt-5.2-codex" :> "gpt-5.2-codex" @@
    "gpt-5.2-codex-low" :> "gpt-5.2-codex" @@
    "gpt-5.2-codex-medium" :> "gpt-5.2-codex" @@
    "gpt-5.2-codex-high" :> "gpt-5.2-codex" @@
    "gpt-5.2-codex-xhigh" :> "gpt-5.2-codex" @@
    "gpt-5.1-codex-mini" :> "gpt-5.1-codex-mini" @@
    "gpt-5.1-codex-mini-medium" :> "gpt-5.1-codex-mini" @@
    "gpt-5.1-codex-mini-high" :> "gpt-5.1-codex-mini" @@
    "gpt-5.1" :> "gpt-5.1" @@
    "gpt-5.1-none" :> "gpt-5.1" @@
    "gpt-5.1-low" :> "gpt-5.1" @@
    "gpt-5.1-medium" :> "gpt-5.1" @@
    "gpt-5.1-high" :> "gpt-5.1" @@
    "gpt-5.1-chat-latest" :> "gpt-5.1" @@
    "gpt-5.3" :> "gpt-5.3" @@
    "gpt-5.3-none" :> "gpt-5.3" @@
    "gpt-5.3-low" :> "gpt-5.3" @@
    "gpt-5.3-medium" :> "gpt-5.3" @@
    "gpt-5.3-high" :> "gpt-5.3" @@
    "gpt-5.3-xhigh" :> "gpt-5.3" @@
    "gpt-5.3-codex" :> "gpt-5.3-codex" @@
    "gpt-5.3-codex-low" :> "gpt-5.3-codex" @@
    "gpt-5.3-codex-medium" :> "gpt-5.3-codex" @@
    "gpt-5.3-codex-high" :> "gpt-5.3-codex" @@
    "gpt-5.3-codex-xhigh" :> "gpt-5.3-codex" @@
    "gpt-5-codex" :> "gpt-5.1-codex" @@
    "codex-mini-latest" :> "gpt-5.1-codex-mini" @@
    "gpt-5-codex-mini" :> "gpt-5.1-codex-mini" @@
    "gpt-5-codex-mini-medium" :> "gpt-5.1-codex-mini" @@
    "gpt-5-codex-mini-high" :> "gpt-5.1-codex-mini" @@
    "gpt-5" :> "gpt-5.1" @@
    "gpt-5-mini" :> "gpt-5.1" @@
    "gpt-5-nano" :> "gpt-5.1"

(* What MODEL_MAP, an object literal, inherits from Object.prototype: a    *)
(* lookup of one of these names gives a function (an object for __proto__) *)
ObjectPrototype ==
    "constructor" :> "function" @@ "toString" :> "function" @@
    "valueOf" :> "function" @@ "hasOwnProperty" :> "function" @@
    "__proto__" :> "object"

(* MODEL_MAP[modelId]: an own property, an inherited one, or undefined *)
lookup(modelId) ==
    IF modelId \in DOMAIN MODEL_MAP THEN Str(MODEL_MAP[modelId])
    ELSE IF modelId \in DOMAIN ObjectPrototype
    THEN [t |-> ObjectPrototype[modelId], s |-> modelId]
    ELSE Undefined

UpperCase ==
    "A" :> "a" @@ "B" :> "b" @@ "C" :> "c" @@ "D" :> "d" @@ "E" :> "e" @@
    "F" :> "f" @@ "G" :> "g" @@ "H" :> "h" @@ "I" :> "i" @@ "J" :> "j" @@
    "K" :> "k" @@ "L" :> "l" @@ "M" :> "m" @@ "N" :> "n" @@ "O" :> "o" @@
    "P" :> "p" @@ "Q" :> "q" @@ "R" :> "r" @@ "S" :> "s" @@ "T" :> "t" @@
    "U" :> "u" @@ "V" :> "v" @@ "W" :> "w" @@ "X" :> "x" @@ "Y" :> "y" @@
    "Z" :> "z"

(* String.prototype.toLowerCase, character by character *)
RECURSIVE toLower(_)
toLower(s) ==
    IF s = "" THEN ""
    ELSE LET c == SubSeq(s, 1, 1)
         IN (IF c \in DOMAIN UpperCase THEN UpperCase[c] ELSE c)
            \o toLower(SubSeq(s, 2, Len(s)))

(* String.prototype.includes *)
includes(s, sub) ==
    \E i \in 1..(Len(s) - Len(sub) + 1) : SubSeq(s, i, i + Len(sub) - 1) = sub

Slashes(s) == { i \in 1..Len(s) : SubSeq(s, i, i) = "/" }

lastSegment_afterFirstSlash(model) ==
    IF Slashes(model) = {} THEN model
    ELSE SubSeq(model, (CHOOSE i \in Slashes(model) :
                          \A j \in Slashes(model) : j >= i) + 1, Len(model))

(* model.includes("/") ? model.split("/").pop() : model *)
lastSegment(model) ==
    IF Slashes(model) = {} THEN model
    ELSE SubSeq(model, (CHOOSE i \in Slashes(model) :
                          \A j \in Slashes(model) : j <= i) + 1, Len(model))

(* The pattern fallback, most specific first: the substrings tried and the *)
(* name returned                                                            *)
Patterns ==
    << <<{"gpt-5.3-codex", "gpt 5.3 codex"}, "gpt-5.3-codex">>,
       <<{"gpt-5.3", "gpt 5.3"}, "gpt-5.3">>,
       <<{"gpt-5.2-codex", "gpt 5.2 codex"}, "gpt-5.2-codex">>,
       <<{"gpt-5.2", "gpt 5.2"}, "gpt-5.2">>,
       <<{"gpt-5.1-codex-max", "gpt 5.1 codex max"}, "gpt-5.1-codex-max">>,
       <<{"gpt-5.1-codex-mini", "gpt 5.1 codex mini"}, "gpt-5.1-codex-mini">>,
       <<{"codex-mini-latest", "gpt-5-codex-mini", "gpt 5 codex mini"},
         "gpt-5.1-codex-mini">>,
       <<{"gpt-5.1-codex", "gpt 5.1 codex"}, "gpt-5.1-codex">>,
       <<{"gpt-5.1", "gpt 5.1"}, "gpt-5.1">> >>

matches(lower, i) == \E sub \in Patterns[i][1] : includes(lower, sub)

(* normalizeModel: [threw, value].  A truthy value that is not a string    *)
(* has no includes method: the call throws.                                 *)
normalizeModel(model) ==
    IF ~truthy(model) THEN [threw |-> FALSE, value |-> Str("gpt-5.1")]
    ELSE IF model.t # "string" THEN [threw |-> TRUE, value |-> Undefined]
    ELSE LET modelId == lastSegment(model.s)
             lower == toLower(modelId)
             match == { key \in DOMAIN MODEL_MAP : toLower(key) = lower }
             hits == { i \in 1..Len(Patterns) : matches(lower, i) }
         IN [threw |-> FALSE,
             value |->
               IF truthy(lookup(modelId)) THEN lookup(modelId)
               ELSE IF match # {} THEN Str(MODEL_MAP[CHOOSE key \in match : TRUE])
               ELSE IF hits # {}
               THEN Str(Patterns[CHOOSE i \in hits : \A j \in hits : i <= j][2])
               ELSE Str(modelId)]

----------------------------------------------------------------------------
(* Request bodies.  A parsed body is a record of the properties the proxy  *)
(* reads or writes and of one it does not know (metadata); an absent       *)
(* property is Undefined.  t tells what kind of JSON value the body, or a  *)
(* property that may hold an array or an object, is.                       *)

MaxItems == 2
MaxInclude == 2

EncryptedContent == Str("reasoning.encrypted_content")

SeqsUpTo(S, n) == UNION { [1..k -> S] : k \in 0..n }

Compound(t, s, items) == [t |-> t, s |-> s, items |-> items]
Absent == Compound("undefined", "", <<>>)

Reasoning(t, s, effort, summary) ==
    [t |-> t, s |-> s, effort |-> effort, summary |-> summary]
NoReasoning == Reasoning("undefined", "", Undefined, Undefined)

Items ==
    [t : {"object"}, type : {Str("message"), Str("item_reference")},
     id : {Undefined, Str("msg_1"), Str("")}, content : {Str("a"), Str("b")}]

NullItem == [t |-> "null", type |-> Undefined, id |-> Undefined,
             content |-> Undefined]

Inputs ==
    { Absent, Compound("string", "text", <<>>),
      Compound("array", "", <<NullItem>>) }
    \cup { Compound("array", "", items) : items \in SeqsUpTo(Items, MaxItems) }

Reasonings ==
    { NoReasoning, Reasoning("null", "", Undefined, Undefined),
      Reasoning("string", "high", Undefined, Undefined) }
    \cup { Reasoning("object", "", effort, summary) :
             effort \in {Undefined, Str("high"), Str("")},
             summary \in {Undefined, Str("detailed"), Str("")} }

Includes ==
    { Absent, Compound("null", "", <<>>), Compound("number", "1", <<>>) }
    \cup { Compound("array", "", items) :
             items \in SeqsUpTo({EncryptedContent, Str("other")}, MaxInclude) }

ModelIds ==
    { "gpt-5.1-codex-high", "GPT-5-Codex", "my gpt 5.3 codex ft",
      "gpt-5.1-codex-maximum", "Claude-X", "o3", "constructor" }

Prefixes == { "vendor", "a/b", "" }

Models ==
    { Undefined, Null, Num("5"), Str(""), Str("vendor/") }
    \cup { Str(m) : m \in ModelIds }
    \cup { Str(p \o "/" \o m) : p \in Prefixes, m \in ModelIds }

Body(t) ==
    [t |-> t, model |-> Undefined, store |-> Undefined, stream |-> Undefined,
     input |-> Absent, reasoning |-> NoReasoning, include |-> Absent,
     max_output_tokens |-> Undefined, max_completion_tokens |-> Undefined,
     metadata |-> Undefined]

Flags == { Undefined, Bool("true"), Bool("false"), Str("true") }

Bodies ==
    { Body(t) : t \in {"null", "number", "string", "boolean", "array"} }
    \cup { [Body("object") EXCEPT !.model = Str("gpt-5-codex"),
              !.stream = stream, !.store = store,
              !.max_output_tokens = a, !.max_completion_tokens = b,
              !.metadata = m] :
             stream \in Flags, store \in Flags,
             a \in {Undefined, Num("100")}, b \in {Undefined, Num("200")},
             m \in {Undefined, Str("x")} }
    \cup { [Body("object") EXCEPT !.model = model, !.stream = stream] :
             model \in Models, stream \in {Undefined, Bool("true")} }
    \cup { [Body("object") EXCEPT !.input = input, !.include = include,
              !.metadata = Str("x")] :
             input \in Inputs,
             include \in {Absent, Compound("array", "", <<Str("other")>>)} }
    \cup { [Body("object") EXCEPT !.reasoning = reasoning,
              !.include = include, !.max_output_tokens = Num("100")] :
             reasoning \in Reasonings, include \in Includes }

(* filterInput: [threw, items].  Reading item.type throws when the item is *)
(* null.                                                                    *)
filterInput_keepsReferences(input) ==
    [threw |-> \E i \in 1..Len(input) : input[i].t = "null",
     items |-> [i \in 1..Len(input) |->
                  IF truthy(input[i].id)
                  THEN [input[i] EXCEPT !.id = Undefined] ELSE input[i]]]

filterInput(input) ==
    LET kept == SelectSeq(input,
                          LAMBDA item : item.type # Str("item_reference"))
    IN [threw |-> \E i \in 1..Len(input) : input[i].t = "null",
        items |-> [i \in 1..Len(kept) |->
                     IF truthy(kept[i].id)
                     THEN [kept[i] EXCEPT !.id = Undefined] ELSE kept[i]]]

(* The reasoning defaults: [threw, value].  A truthy value that is not an  *)
(* object has no effort property, and the module runs in strict mode: the  *)
(* assignment of the default throws.                                        *)
reasoningDefaults_allOrNothing(reasoning) ==
    IF ~truthy(reasoning)
    THEN [threw |-> FALSE,
          value |-> Reasoning("object", "", Str("medium"), Str("auto"))]
    ELSE IF reasoning.t # "object" THEN [threw |-> TRUE, value |-> reasoning]
    ELSE IF truthy(reasoning.effort) /\ truthy(reasoning.summary)
    THEN [threw |-> FALSE, value |-> reasoning]
    ELSE [threw |-> FALSE,
          value |-> Reasoning("object", "", Str("medium"), Str("auto"))]

reasoningDefaults(reasoning) ==
    IF ~truthy(reasoning)
    THEN [threw |-> FALSE,
          value |-> Reasoning("object", "", Str("medium"), Str("auto"))]
    ELSE IF reasoning.t # "object" THEN [threw |-> TRUE, value |-> reasoning]
    ELSE [threw |-> FALSE,
          value |-> [reasoning EXCEPT
                       !.effort = IF truthy(@) THEN @ ELSE Str("medium"),
                       !.summary = IF truthy(@) THEN @ ELSE Str("auto")]]

(* The include entry: [threw, value].  A truthy value that is not an array *)
(* (nor a string) has no includes method.                                   *)
ensureInclude_always(include) ==
    IF ~truthy(include)
    THEN [threw |-> FALSE,
          value |-> Compound("array", "", <<EncryptedContent>>)]
    ELSE IF include.t # "array" THEN [threw |-> TRUE, value |-> include]
    ELSE [threw |-> FALSE,
          value |-> [include EXCEPT !.items = Append(@, EncryptedContent)]]

ensureInclude(include) ==
    IF ~truthy(include)
    THEN [threw |-> FALSE,
          value |-> Compound("array", "", <<EncryptedContent>>)]
    ELSE IF include.t # "array" THEN [threw |-> TRUE, value |-> include]
    ELSE IF EncryptedContent \in Range(include.items)
    THEN [threw |-> FALSE, value |-> include]
    ELSE [threw |-> FALSE,
          value |-> [include EXCEPT !.items = Append(@, EncryptedContent)]]

wasStreaming_truthy(body) == truthy(body.stream)

(* const wasStreaming = body.stream === true *)
wasStreaming(body) == body.stream = Bool("true")

deleteLegacy_keepsCompletionLimit(body) ==
    [body EXCEPT !.max_output_tokens = Undefined]

(* delete body.max_output_tokens; delete body.max_completion_tokens *)
deleteLegacy(body) ==
    [body EXCEPT !.max_output_tokens = Undefined,
                 !.max_completion_tokens = Undefined]

(* transformRequestBody: [threw, transformed, wasStreaming].  Reading a    *)
(* property of null throws; so does, in strict mode, the assignment of a   *)
(* property to a number, a string or a boolean.                            *)
transformRequestBody(body) ==
    LET model == normalizeModel(body.model)
        input == IF body.input.t = "array" THEN filterInput(body.input.items)
                 ELSE [threw |-> FALSE, items |-> body.input.items]
        reasoning == reasoningDefaults(body.reasoning)
        include == ensureInclude(body.include)
    IN IF \/ body.t \notin {"object", "array"}
          \/ model.threw \/ input.threw \/ reasoning.threw \/ include.threw
       THEN [threw |-> TRUE, transformed |-> body, wasStreaming |-> FALSE]
       ELSE [threw |-> FALSE,
             transformed |->
               deleteLegacy([body EXCEPT !.model = model.value,
                                         !.store = Bool("false"),
                                         !.stream = Bool("true"),
                                         !.input.items = input.items,
                                         !.reasoning = reasoning.value,
                                         !.include = include.value]),
             wasStreaming |-> wasStreaming(body)]

(* JSON.stringify of the transformed body: an array keeps none of the      *)
(* properties set on it, and a property holding a function is left out.    *)
stringifyBody(body) ==
    IF body.t = "array" THEN Body("array")
    ELSE [body EXCEPT !.model = IF @.t = "function" THEN Undefined ELSE @]

----------------------------------------------------------------------------
(* The request as handleRequest rewrites it for the backend *)

NoClientHeaders == [host |-> ""]

(* Headers of an inbound request: a plain client, and one that tries to    *)
(* set the account header and a header of its own                          *)
ClientHeaders ==
    { [host |-> "localhost"],
      [host |-> "localhost", accountId |-> "acctEvil", x_injected |-> "1"] }

ClientRequests == [headers : ClientHeaders, body : Bodies]

(* The requests a handler of the server is given *)
FlowRequests ==
    [headers : ClientHeaders,
     body : { Body(t) : t \in {"null", "number", "array"} }
            \cup { [Body("object") EXCEPT !.stream = stream] :
                     stream \in Flags }]

(* The requests that tell the outcomes of Forward apart: the               *)
(* transformation raises or it returns                                      *)
CoarseRequests ==
    [headers : ClientHeaders, body : { Body("null"), Body("object") }]

NoInbound == [headers |-> NoClientHeaders, body |-> Undefined]

NoRewrite == [state |-> "none"]

forwardRequest_passesClientHeaders(request, state) ==
    LET t == transformRequestBody(request.body)
    IN IF t.threw THEN [NoRewrite EXCEPT !.state = "threw"]
       ELSE [state |-> "sent", transformed |-> t.transformed,
             wasStreaming |-> t.wasStreaming,
             headers |-> request.headers
                         @@ createHeaders(state.accessToken, state.accountId),
             body |-> stringifyBody(t.transformed)]

(* handleRequest from transformRequestBody to the fetch: what it hands to  *)
(* the backend call, or "threw" when the transformation raised             *)
forwardRequest(request, state) ==
    LET t == transformRequestBody(request.body)
    IN IF t.threw THEN [NoRewrite EXCEPT !.state = "threw"]
       ELSE [state |-> "sent", transformed |-> t.transformed,
             wasStreaming |-> t.wasStreaming,
             headers |-> createHeaders(state.accessToken, state.accountId),
             body |-> stringifyBody(t.transformed)]

----------------------------------------------------------------------------

(* State of the proxy *)

VARIABLES
    tokenState,   \* the one TokenState shared by start() and every handler
    now,          \* Date.now()
    server,       \* "constructed", "listening", "failed", "stopped"
    pc,           \* where each caller of ensureValidToken is suspended
    req,          \* the request a handler is serving
    call,         \* the refresh call a caller has in flight
    hdrs,         \* the headers of the handler's backend call in flight
    res,          \* what was written to the handler's ServerResponse
    trace,        \* the steps the handler has taken for its request
    accepted,     \* requests accepted so far
    lastRefresh,  \* the refresh call that ended last: whose, how, with what
    lastNet,      \* what the refresh call that ended in the last step received
    started,      \* the promise of start(): "pending", "resolved", "rejected"
    published,    \* the server info file was written
    io,           \* the backend response a handler is adapting
    inbound,      \* the request whose rewrite is followed in detail
    rewritten     \* what that request became for the backend call

vars == <<tokenState, now, server, pc, req, call, hdrs, res, trace, accepted,
          lastRefresh, lastNet, started, published, io, inbound, rewritten>>

InFlight == { p \in Procs : pc[p] \in {"authFetch", "relayFetch"} }

(* A response that was ended closes its exchange before anything else runs: *)
(* the other segments are scheduled only when no handler is at "done".      *)
NoneDone == \A h \in Handlers : pc[h] # "done"

ProxyInit ==
    /\ \E a \in SeedTokens,
          opt \in { <<"r1", "", "">>, <<"", "https://relay", "key">>,
                    <<"r1", "https://relay", "key">> } :
          LET made == createOAuthProxy(a, opt[1], opt[2], opt[3])
          IN ~made.threw /\ tokenState = made.state
    /\ now = StartNow
    /\ server = "constructed"
    /\ pc = [p \in Procs |-> "idle"]
    /\ req = [p \in Procs |-> NoRequest]
    /\ call = [p \in Procs |-> NoCall]
    /\ hdrs = [p \in Procs |-> NoHeaders]
    /\ res = [p \in Procs |-> NoResponse]
    /\ trace = [p \in Procs |-> <<>>]
    /\ accepted = 0
    /\ lastRefresh = [by |-> Starter, type |-> "none", access |-> NoToken,
                      refresh |-> "", expires |-> 0, peer |-> NoToken]
    /\ lastNet = NoNet
    /\ started = "pending"
    /\ published = FALSE
    /\ io = [p \in Procs |-> NoIo]

Init ==
    /\ ProxyInit
    /\ inbound = NoInbound
    /\ rewritten = NoRewrite

(* res.writeHead(status, {"Content-Type": "application/json"});            *)
(* res.end(body).  What is written is kept as a sequence of writes, each a *)
(* text: a sequence of pieces.                                              *)
reply(p, status, body) ==
    res' = [res EXCEPT ![p] = [heads |-> Append(@.heads, status),
                               ctype |-> Append(@.ctype, "application/json"),
                               body |-> Append(@.body, <<body>>),
                               ends |-> @.ends + 1]]

catchUnhandled_alwaysWritesHead(r) ==
    [heads |-> Append(r.heads, 500),
     ctype |-> Append(r.ctype, "application/json"),
     body |-> Append(r.body, <<"Internal proxy error">>),
     ends |-> r.ends + 1]

(* The catch of createServer's callback, on the response as it is *)
catchUnhandled(r) ==
    [heads |-> IF r.heads = <<>> THEN <<500>> ELSE r.heads,
     ctype |-> IF r.heads = <<>> THEN <<"application/json">> ELSE r.ctype,
     body |-> Append(r.body, <<"Internal proxy error">>),
     ends |-> r.ends + 1]

did(p, events) == trace' = [trace EXCEPT ![p] = @ \o events]

(* The call of ensureValidToken by p, up to its first await *)
callEnsureValid(p) ==
    LET go == ensureValidEntry(tokenState, now)
    IN /\ pc' = [pc EXCEPT ![p] = CASE go = "return" -> "validated"
                                    [] go = "relay" -> "relayFetch"
                                    [] OTHER -> "authFetch"]
       /\ call' = [call EXCEPT ![p] =
                     CASE go = "return" -> NoCall
                       [] go = "relay" ->
                            [kind |-> "relay", refreshToken |-> "",
                             relayUrl |-> tokenState.relayUrl,
                             relayKey |-> tokenState.relayKey,
                             peer |-> NoToken]
                       [] OTHER ->
                            [kind |-> "auth",
                             refreshToken |-> tokenState.refreshToken,
                             relayUrl |-> "", relayKey |-> "",
                             peer |-> NoToken]]

catchEnsureValid_goesOn(p, threw) == TRUE

(* The catch around ensureValidToken in handleRequest (for start(), the    *)
(* rejection of start): TRUE when the caller goes on after a throw          *)
catchEnsureValid(p, threw) == ~threw

(* ensureValidToken ended for p after a refresh call that produced r *)
returnEnsureValid(p, threw, r) ==
    /\ call' = [q \in Procs |->
                  IF q = p THEN NoCall
                  ELSE IF q \in InFlight /\ ~threw
                  THEN [call[q] EXCEPT !.peer = r.access]
                  ELSE call[q]]
    /\ lastRefresh' = [by |-> p, type |-> IF threw THEN "threw" ELSE "success",
                       access |-> r.access, refresh |-> r.refresh,
                       expires |-> r.expires, peer |-> call[p].peer]
    /\ IF threw THEN did(p, <<"threw">>) ELSE UNCHANGED trace
    /\ IF catchEnsureValid(p, threw)
       THEN /\ pc' = [pc EXCEPT ![p] = "validated"]
            /\ UNCHANGED <<server, res, started>>
       ELSE /\ pc' = [pc EXCEPT ![p] = "done"]
            /\ IF p = Starter
               THEN /\ server' = "failed" /\ started' = "rejected"
                    /\ UNCHANGED res
               ELSE /\ reply(p, 401, "OAuth token refresh failed. Re-authenticate.")
                    /\ UNCHANGED <<server, started>>

----------------------------------------------------------------------------
(* Actions *)

(* start(): the eager ensureValidToken call *)
Start ==
    /\ server = "constructed" /\ pc[Starter] = "idle"
    /\ callEnsureValid(Starter)
    /\ did(Starter, <<"ensureValid">>)
    /\ UNCHANGED <<tokenState, now, server, req, hdrs, res, accepted,
                   lastRefresh>>
    /\ lastNet' = NoNet
    /\ UNCHANGED <<started, published, io>>
    /\ UNCHANGED <<inbound, rewritten>>

(* start(): ensureValidToken returned, server.listen *)
Listen ==
    /\ server = "constructed" /\ pc[Starter] = "validated"
    /\ server' = "listening"
    /\ pc' = [pc EXCEPT ![Starter] = "done"]
    /\ did(Starter, <<"listen">>)
    /\ UNCHANGED <<tokenState, now, req, call, hdrs, res, accepted,
                   lastRefresh>>
    /\ lastNet' = NoNet
    /\ started' = "resolved" /\ published' = TRUE
    /\ UNCHANGED io
    /\ UNCHANGED <<inbound, rewritten>>

(* stop(): server.close *)
Stop ==
    /\ server = "listening" /\ NoneDone
    /\ server' = "stopped"
    /\ UNCHANGED <<tokenState, now, pc, req, call, hdrs, res, trace,
                   accepted, lastRefresh>>
    /\ lastNet' = NoNet
    /\ UNCHANGED <<started, published, io>>
    /\ UNCHANGED <<inbound, rewritten>>

(* handleRequest up to the route test and, past it, to await readBody.     *)
(* Handler slots are interchangeable: a request takes the lowest free one. *)
Accept(h) ==
    /\ server = "listening" /\ pc[h] = "idle" /\ accepted < MaxRequests
    /\ NoneDone
    /\ \A g \in Handlers : g < h => pc[g] # "idle"
    /\ accepted' = accepted + 1
    /\ \E m \in Methods, u \in Urls :
          /\ req' = [req EXCEPT ![h] = [method |-> m, url |-> u, raw |-> "unread"]]
          /\ IF routeRefused(m, u)
             THEN /\ reply(h, 404, "Not found")
                  /\ pc' = [pc EXCEPT ![h] = "done"]
                  /\ did(h, <<"route">>)
             ELSE /\ pc' = [pc EXCEPT ![h] = "readBody"]
                  /\ did(h, <<"route", "readBody">>)
                  /\ UNCHANGED res
    /\ UNCHANGED <<tokenState, now, server, call, hdrs, lastRefresh>>
    /\ lastNet' = NoNet
    /\ UNCHANGED <<started, published, io>>
    /\ UNCHANGED <<inbound, rewritten>>

(* readBody resolved: JSON.parse, then the call of ensureValidToken.  The   *)
(* handler never reads req.method or req.url again: they are dropped here. *)
BodyRead(h) ==
    /\ h \in Handlers /\ pc[h] = "readBody" /\ NoneDone
    /\ \E raw \in RawBodies :
          /\ req' = [req EXCEPT ![h] = [NoRequest EXCEPT !.raw = raw]]
          /\ IF parseThrows(raw)
             THEN /\ reply(h, 400, "Invalid JSON body")
                  /\ pc' = [pc EXCEPT ![h] = "done"]
                  /\ did(h, <<"parse">>)
                  /\ UNCHANGED call
             ELSE /\ callEnsureValid(h)
                  /\ did(h, <<"parse", "ensureValid">>)
                  /\ UNCHANGED res
    /\ UNCHANGED <<tokenState, now, server, hdrs, accepted, lastRefresh>>
    /\ lastNet' = NoNet
    /\ UNCHANGED <<started, published, io>>
    /\ UNCHANGED <<inbound, rewritten>>

(* readBody rejected: the catch of createServer's callback *)
BodyError(h) ==
    /\ h \in Handlers /\ pc[h] = "readBody" /\ NoneDone
    /\ res' = [res EXCEPT ![h] = catchUnhandled(@)]
    /\ pc' = [pc EXCEPT ![h] = "done"]
    /\ did(h, <<"catch">>)
    /\ UNCHANGED <<tokenState, now, server, req, call, hdrs, accepted,
                   lastRefresh>>
    /\ lastNet' = NoNet
    /\ UNCHANGED <<started, published, io>>
    /\ UNCHANGED <<inbound, rewritten>>

(* The auth-server exchange ended: refreshAccessToken's result, and the    *)
(* rest of ensureValidToken                                                 *)
AuthRefreshDone(p) ==
    /\ pc[p] = "authFetch" /\ NoneDone
    /\ \E net \in AuthResponses :
          LET r == refreshAccessToken(call[p].refreshToken, net, now)
              out == ensureValidApply(tokenState, r)
          IN /\ tokenState' = out.state
             /\ returnEnsureValid(p, out.threw, r)
             /\ lastNet' = [kind |-> "auth", resp |-> net]
    /\ UNCHANGED <<now, req, hdrs, accepted, published, io>>
    /\ UNCHANGED <<inbound, rewritten>>

(* The relay fetch ended: the rest of fetchFromRelay *)
RelayFetchDone(p) ==
    /\ pc[p] = "relayFetch" /\ NoneDone
    /\ \E net \in RelayResponses :
          LET out == fetchFromRelay(tokenState, net)
              r == IF net.throws \/ ~net.ok \/ net.access_token = NoToken
                      \/ ~net.isNum
                   THEN Failed
                   ELSE [type |-> "success", access |-> net.access_token,
                         refresh |-> tokenState.refreshToken,
                         expires |-> net.num]
          IN /\ tokenState' = out.state
             /\ returnEnsureValid(p, out.threw, r)
             /\ lastNet' = [kind |-> "relay", resp |-> net]
    /\ UNCHANGED <<now, req, hdrs, accepted, published, io>>
    /\ UNCHANGED <<inbound, rewritten>>

(* handleRequest after ensureValidToken: transformRequestBody,             *)
(* createHeaders and the backend fetch; a throw of the transformation is   *)
(* caught by createServer's callback                                        *)
Forward(h) ==
    /\ h \in Handlers /\ pc[h] = "validated" /\ NoneDone
    /\ \E request \in CoarseRequests :
          LET out == forwardRequest(request, tokenState)
          IN IF out.state = "threw"
             THEN /\ res' = [res EXCEPT ![h] = catchUnhandled(@)]
                  /\ pc' = [pc EXCEPT ![h] = "done"]
                  /\ did(h, <<"transform", "catch">>)
                  /\ UNCHANGED hdrs
             ELSE /\ hdrs' = [hdrs EXCEPT ![h] = out.headers]
                  /\ pc' = [pc EXCEPT ![h] = "upstream"]
                  /\ did(h, <<"transform", "backend">>)
                  /\ UNCHANGED res
    /\ UNCHANGED <<tokenState, now, server, req, call, accepted, lastRefresh>>
    /\ lastNet' = NoNet
    /\ UNCHANGED <<started, published, io>>
    /\ UNCHANGED <<inbound, rewritten>>

(* The backend fetch ended: 502 on a throw, else handleUpstreamResponse *)
UpstreamDone(h) ==
    /\ h \in Handlers /\ pc[h] = "upstream" /\ NoneDone
    /\ \E up \in UpstreamResponses :
          IF up.throws
          THEN reply(h, 502, "Failed to reach ChatGPT backend")
          ELSE reply(h, downstreamStatus(up), "upstream")
    /\ pc' = [pc EXCEPT ![h] = "done"]
    /\ hdrs' = [hdrs EXCEPT ![h] = NoHeaders]
    /\ did(h, <<"respond">>)
    /\ UNCHANGED <<tokenState, now, server, req, call, accepted, lastRefresh>>
    /\ lastNet' = NoNet
    /\ UNCHANGED <<started, published, io>>
    /\ UNCHANGED <<inbound, rewritten>>

(* The connection is over: the handler slot serves the next request *)
Finish(h) ==
    /\ h \in Handlers /\ pc[h] = "done"
    /\ pc' = [pc EXCEPT ![h] = "idle"]
    /\ req' = [req EXCEPT ![h] = NoRequest]
    /\ res' = [res EXCEPT ![h] = NoResponse]
    /\ trace' = [trace EXCEPT ![h] = <<>>]
    /\ UNCHANGED <<tokenState, now, server, call, hdrs, accepted, lastRefresh>>
    /\ lastNet' = NoNet
    /\ io' = [io EXCEPT ![h] = NoIo]
    /\ UNCHANGED <<started, published>>
    /\ UNCHANGED <<inbound, rewritten>>

(* Time passes *)
Tick ==
    /\ now < StartNow + MaxTicks * TickMs /\ NoneDone
    /\ now' = now + TickMs
    /\ UNCHANGED <<tokenState, server, pc, req, call, hdrs, res, trace,
                   accepted, lastRefresh>>
    /\ lastNet' = NoNet
    /\ UNCHANGED <<started, published, io>>
    /\ UNCHANGED <<inbound, rewritten>>

Next ==
    \/ Start
    \/ Listen
    \/ Stop
    \/ Tick
    \/ \E h \in Handlers : Accept(h)
    \/ \E h \in Handlers : BodyRead(h)
    \/ \E h \in Handlers : BodyError(h)
    \/ \E p \in Procs : AuthRefreshDone(p)
    \/ \E p \in Procs : RelayFetchDone(p)
    \/ \E h \in Handlers : Forward(h)
    \/ \E h \in Handlers : UpstreamDone(h)
    \/ \E h \in Handlers : Finish(h)

Spec == Init /\ [][Next]_vars

----------------------------------------------------------------------------
(* The start() promise and one request in detail: server.listen and the    *)
(* write of the server info file as steps of their own, and the response   *)
(* adapter chunk by chunk.  Requests are served one at a time here.        *)

FlowHandlers == {1}

(* start(): ensureValidToken returned, server.listen is called *)
ListenCall ==
    /\ server = "constructed" /\ pc[Starter] = "validated"
    /\ pc' = [pc EXCEPT ![Starter] = "binding"]
    /\ did(Starter, <<"listen">>)
    /\ lastNet' = NoNet
    /\ UNCHANGED <<tokenState, now, server, req, call, hdrs, res, accepted,
                   lastRefresh, started, published, io>>
    /\ UNCHANGED <<inbound, rewritten>>

(* The "listening" callback: the socket is bound, writeFile is issued *)
Bound ==
    /\ pc[Starter] = "binding"
    /\ server' = "listening"
    /\ pc' = [pc EXCEPT ![Starter] = "writing"]
    /\ did(Starter, <<"listening">>)
    /\ lastNet' = NoNet
    /\ UNCHANGED <<tokenState, now, req, call, hdrs, res, accepted,
                   lastRefresh, started, published, io>>
    /\ UNCHANGED <<inbound, rewritten>>

(* The server's "error" event (or no address): reject *)
BindFailed ==
    /\ pc[Starter] = "binding"
    /\ server' = "failed"
    /\ started' = "rejected"
    /\ pc' = [pc EXCEPT ![Starter] = "done"]
    /\ did(Starter, <<"error">>)
    /\ lastNet' = NoNet
    /\ UNCHANGED <<tokenState, now, req, call, hdrs, res, accepted,
                   lastRefresh, published, io>>
    /\ UNCHANGED <<inbound, rewritten>>

(* writeFile wrote the server info file *)
InfoWritten ==
    /\ pc[Starter] = "writing" /\ NoneDone
    /\ published' = TRUE
    /\ pc' = [pc EXCEPT ![Starter] = "written"]
    /\ did(Starter, <<"published">>)
    /\ lastNet' = NoNet
    /\ UNCHANGED <<tokenState, now, server, req, call, hdrs, res, accepted,
                   lastRefresh, started, io>>
    /\ UNCHANGED <<inbound, rewritten>>

(* writeFile failed: reject(writeErr) *)
InfoWriteFailed ==
    /\ pc[Starter] = "writing" /\ NoneDone
    /\ started' = "rejected"
    /\ pc' = [pc EXCEPT ![Starter] = "done"]
    /\ did(Starter, <<"writeErr">>)
    /\ lastNet' = NoNet
    /\ UNCHANGED <<tokenState, now, server, req, call, hdrs, res, accepted,
                   lastRefresh, published, io>>
    /\ UNCHANGED <<inbound, rewritten>>

(* The callback goes on after await writeFile: resolve() *)
StartResolved ==
    /\ pc[Starter] = "written" /\ NoneDone
    /\ started' = "resolved"
    /\ pc' = [pc EXCEPT ![Starter] = "done"]
    /\ lastNet' = NoNet
    /\ UNCHANGED <<tokenState, now, server, req, call, hdrs, res, trace,
                   accepted, lastRefresh, published, io>>
    /\ UNCHANGED <<inbound, rewritten>>

(* handleRequest after ensureValidToken: transformRequestBody (which tells *)
(* whether the body asked for a stream), createHeaders, the backend fetch  *)
ForwardBody(h) ==
    /\ h \in Handlers /\ pc[h] = "validated" /\ NoneDone
    /\ \E request \in FlowRequests :
          LET out == forwardRequest(request, tokenState)
          IN IF out.state = "threw"
             THEN /\ res' = [res EXCEPT ![h] = catchUnhandled(@)]
                  /\ pc' = [pc EXCEPT ![h] = "done"]
                  /\ did(h, <<"transform", "catch">>)
                  /\ UNCHANGED <<hdrs, io>>
             ELSE /\ hdrs' = [hdrs EXCEPT ![h] = out.headers]
                  /\ io' = [io EXCEPT ![h] =
                              [NoIo EXCEPT !.streaming = out.wasStreaming]]
                  /\ pc' = [pc EXCEPT ![h] = "upstream"]
                  /\ did(h, <<"transform", "backend">>)
                  /\ UNCHANGED res
    /\ lastNet' = NoNet
    /\ UNCHANGED <<tokenState, now, server, req, call, accepted,
                   lastRefresh, started, published>>
    /\ UNCHANGED <<inbound, rewritten>>

(* The backend fetch ended: 502 on a throw, else handleUpstreamResponse up *)
(* to its first await                                                       *)
BackendFetched(h) ==
    /\ h \in Handlers /\ pc[h] = "upstream" /\ NoneDone
    /\ \E up \in BackendResponses :
          LET seen == [io[h] EXCEPT !.status = up.status,
                                    !.hasBody = up.hasBody]
          IN CASE up.throws ->
                    /\ reply(h, 502, "Failed to reach ChatGPT backend")
                    /\ pc' = [pc EXCEPT ![h] = "done"]
                    /\ io' = [io EXCEPT ![h] = [seen EXCEPT !.fin = "fetchThrew"]]
               [] ~up.throws /\ ~isOk(up.status) ->
                    /\ pc' = [pc EXCEPT ![h] = "errorText"]
                    /\ io' = [io EXCEPT ![h] = seen]
                    /\ UNCHANGED res
               [] ~up.throws /\ isOk(up.status) /\ io[h].streaming ->
                    LET head == writeHead(res[h], 200,
                                          "text/event-stream; charset=utf-8")
                    IN IF up.hasBody
                       THEN /\ res' = [res EXCEPT ![h] = head]
                            /\ pc' = [pc EXCEPT ![h] = "piping"]
                            /\ io' = [io EXCEPT ![h] = seen]
                       ELSE /\ res' = [res EXCEPT ![h] = end(head)]
                            /\ pc' = [pc EXCEPT ![h] = "done"]
                            /\ io' = [io EXCEPT ![h] =
                                        [seen EXCEPT !.fin = "noBody"]]
               [] OTHER ->
                    IF up.hasBody
                    THEN /\ pc' = [pc EXCEPT ![h] = "buffering"]
                         /\ io' = [io EXCEPT ![h] = seen]
                         /\ UNCHANGED res
                    ELSE /\ reply(h, 502, "No response body from upstream")
                         /\ pc' = [pc EXCEPT ![h] = "done"]
                         /\ io' = [io EXCEPT ![h] = [seen EXCEPT !.fin = "noBody"]]
    /\ hdrs' = [hdrs EXCEPT ![h] = NoHeaders]
    /\ did(h, <<"respond">>)
    /\ lastNet' = NoNet
    /\ UNCHANGED <<tokenState, now, server, req, call, accepted, lastRefresh,
                   started, published>>
    /\ UNCHANGED <<inbound, rewritten>>

(* upstream.text() of a non-2xx response ended: the body, or "" when the   *)
(* read failed                                                              *)
ErrorTextRead(h) ==
    /\ h \in Handlers /\ pc[h] = "errorText"
    /\ \E failed \in BOOLEAN, b \in ErrorBodies :
          LET body == IF failed THEN <<>> ELSE b
          IN /\ (failed => b = CHOOSE x \in ErrorBodies : TRUE)
             /\ res' = [res EXCEPT ![h] =
                          errorPassthrough(@, io[h].status, body)]
             /\ io' = [io EXCEPT ![h] =
                         [@ EXCEPT !.text = body,
                                   !.fin = IF failed THEN "textFailed"
                                           ELSE "text"]]
    /\ pc' = [pc EXCEPT ![h] = "done"]
    /\ lastNet' = NoNet
    /\ UNCHANGED <<tokenState, now, server, req, call, hdrs, trace, accepted,
                   lastRefresh, started, published>>
    /\ UNCHANGED <<inbound, rewritten>>

(* pipeStream: reader.read() ended with a chunk, with done, or with an     *)
(* error                                                                    *)
PipeRead(h) ==
    /\ h \in Handlers /\ pc[h] = "piping"
    /\ \/ \E value \in ChunkValues :
             /\ Len(io[h].got) < MaxChunks
             /\ io' = [io EXCEPT ![h].got = Append(@, value)]
             /\ res' = [res EXCEPT ![h] = pipeChunk(@, value)]
             /\ UNCHANGED pc
       \/ \E how \in {"eos", "error"} :
             /\ io' = [io EXCEPT ![h].fin = how]
             /\ res' = [res EXCEPT ![h] = end(@)]
             /\ pc' = [pc EXCEPT ![h] = "done"]
    /\ lastNet' = NoNet
    /\ UNCHANGED <<tokenState, now, server, req, call, hdrs, trace, accepted,
                   lastRefresh, started, published>>
    /\ UNCHANGED <<inbound, rewritten>>

(* convertSseToJson: reader.read() ended with a chunk, with done, or with  *)
(* an error                                                                 *)
BufferRead(h) ==
    /\ h \in Handlers /\ pc[h] = "buffering"
    /\ \/ \E value \in ChunkValues :
             /\ Len(io[h].got) < MaxChunks
             /\ io' = [io EXCEPT ![h].got = Append(@, value)]
             /\ UNCHANGED <<pc, res>>
       \/ \E how \in {"eos", "error"} :
             /\ io' = [io EXCEPT ![h].fin = how]
             /\ res' = [res EXCEPT ![h] =
                          IF how = "eos"
                          THEN convertAtEnd(@, Concat(io[h].got))
                          ELSE convertReadError(@, Concat(io[h].got))]
             /\ pc' = [pc EXCEPT ![h] = "done"]
    /\ lastNet' = NoNet
    /\ UNCHANGED <<tokenState, now, server, req, call, hdrs, trace, accepted,
                   lastRefresh, started, published>>
    /\ UNCHANGED <<inbound, rewritten>>

NextFlow ==
    \/ Start
    \/ ListenCall
    \/ Bound
    \/ BindFailed
    \/ InfoWritten
    \/ InfoWriteFailed
    \/ StartResolved
    \/ \E h \in FlowHandlers : Accept(h)
    \/ \E h \in FlowHandlers : BodyRead(h)
    \/ \E h \in FlowHandlers : BodyError(h)
    \/ \E p \in {Starter} \cup FlowHandlers : AuthRefreshDone(p)
    \/ \E p \in {Starter} \cup FlowHandlers : RelayFetchDone(p)
    \/ \E h \in FlowHandlers : ForwardBody(h)
    \/ \E h \in FlowHandlers : BackendFetched(h)
    \/ \E h \in FlowHandlers : ErrorTextRead(h)
    \/ \E h \in FlowHandlers : PipeRead(h)
    \/ \E h \in FlowHandlers : BufferRead(h)
    \/ \E h \in FlowHandlers : Finish(h)

SpecFlow == Init /\ [][NextFlow]_vars

(* One step of a request that waits on an I/O operation: the operation     *)
(* ended, with a value or with a failure, and its continuation ran.  A     *)
(* handler waits on one operation at a time.                                *)
RequestStep(h) ==
    \/ BodyRead(h) \/ BodyError(h)
    \/ AuthRefreshDone(h) \/ RelayFetchDone(h)
    \/ ForwardBody(h) \/ BackendFetched(h)
    \/ ErrorTextRead(h) \/ PipeRead(h) \/ BufferRead(h)

(* The event loop runs every continuation whose I/O operation ended, and   *)
(* every I/O operation a request waits on (body read, refresh call,        *)
(* backend fetch, read of the backend body) ends; a backend body has       *)
(* finitely many chunks.                                                    *)
FlowFairness == \A h \in FlowHandlers : WF_vars(RequestStep(h))

SpecFlowFair == SpecFlow /\ FlowFairness

(* pipeStream wrote the head and upstream.body.getReader() threw: the call *)
(* is outside the try of pipeStream, so the exception leaves               *)
(* handleUpstreamResponse and handleRequest and reaches the catch of       *)
(* createServer's callback.                                                 *)
PipeReaderThrows(h) ==
    /\ h \in Handlers /\ pc[h] = "upstream" /\ NoneDone
    /\ io[h].streaming
    /\ res' = [res EXCEPT ![h] =
                 catchUnhandled(writeHead(@, 200,
                                          "text/event-stream; charset=utf-8"))]
    /\ io' = [io EXCEPT ![h] = [@ EXCEPT !.status = 200, !.hasBody = TRUE,
                                         !.fin = "readerThrew"]]
    /\ pc' = [pc EXCEPT ![h] = "done"]
    /\ hdrs' = [hdrs EXCEPT ![h] = NoHeaders]
    /\ did(h, <<"respond", "catch">>)
    /\ lastNet' = NoNet
    /\ UNCHANGED <<tokenState, now, server, req, call, accepted, lastRefresh,
                   started, published>>
    /\ UNCHANGED <<inbound, rewritten>>

(* The request flow with that failure possible *)
NextFault ==
    \/ NextFlow
    \/ \E h \in FlowHandlers : PipeReaderThrows(h)

SpecFault == Init /\ [][NextFault]_vars

----------------------------------------------------------------------------
(* The client going away during the streaming passthrough: the socket of   *)
(* the ServerResponse closes ('close' on the response) while pipeStream    *)
(* awaits reader.read().  pipeStream registers no listener and reads no    *)
(* state of the response, so its loop goes on as before.                   *)

ClientDisconnect(h) ==
    /\ h \in Handlers /\ pc[h] = "piping"
    /\ ~io[h].closed
    /\ io' = [io EXCEPT ![h].closed = TRUE]
    /\ lastNet' = NoNet
    /\ UNCHANGED <<tokenState, now, server, pc, req, call, hdrs, res, trace,
                   accepted, lastRefresh, started, published>>
    /\ UNCHANGED <<inbound, rewritten>>

NextDisconnect ==
    \/ NextFlow
    \/ \E h \in FlowHandlers : ClientDisconnect(h)

SpecDisconnect == Init /\ [][NextDisconnect]_vars

----------------------------------------------------------------------------
(* The rewrite of one request in detail: the request is drawn from the     *)
(* bodies and headers a client can send, and handleRequest's segment from  *)
(* transformRequestBody to the backend call is applied to it.              *)

InitRewrite ==
    /\ ProxyInit
    /\ inbound \in ClientRequests
    /\ rewritten = NoRewrite

Rewrite ==
    /\ rewritten.state = "none"
    /\ rewritten' = forwardRequest(inbound, tokenState)
    /\ UNCHANGED <<tokenState, now, server, pc, req, call, hdrs, res, trace,
                   accepted, lastRefresh, lastNet, started, published, io,
                   inbound>>

NextRewrite == Rewrite

SpecRewrite == InitRewrite /\ [][NextRewrite]_vars

----------------------------------------------------------------------------

(* Properties *)

Reply(status, body) ==
    [heads |-> <<status>>, ctype |-> <<"application/json">>,
     body |-> <<<<body>>>>, ends |-> 1]

(* p calls ensureValidToken in this step *)
EntersEnsureValid(p) ==
    \/ p = Starter /\ pc[p] = "idle" /\ pc'[p] # "idle"
    \/ p \in Handlers /\ pc[p] = "readBody" /\ "ensureValid" \in Range(trace'[p])

(* p's refresh call ends in this step and ensureValidToken returns *)
ReturnsRefreshed(p) == p \in InFlight /\ pc'[p] = "validated"

(* C1: in every reachable state the stored account identifier is the one   *)
(* derived from the stored access token.                                    *)
C1_AccountBinding ==
    getAccountId(tokenState.accessToken)
        = [threw |-> FALSE, value |-> tokenState.accountId]

(* C2: at most one refresh call (auth-server exchange or relay fetch) is   *)
(* in flight at any time.                                                   *)
C2_SingleFlight == Cardinality(InFlight) <= 1

(* C3: when the refresh call that ended last ended successfully, the token *)
(* state holds exactly that refresh's access token, refresh token, expiry  *)
(* and the account identifier of its access token, also when it overlapped *)
(* another caller's refresh call: the last writer wins, whole.             *)
C3_LastWriterWins ==
    lastRefresh.type = "success" =>
        /\ tokenState.accessToken = lastRefresh.access
        /\ tokenState.refreshToken = lastRefresh.refresh
        /\ tokenState.expires = lastRefresh.expires
        /\ tokenState.accountId = getAccountId(lastRefresh.access).value

(* Two handlers' refresh calls overlapped, both ended successfully with    *)
(* different tokens, and the state holds the later one's.                  *)
C3_Witness ==
    /\ lastRefresh.type = "success" /\ lastRefresh.by \in Handlers
    /\ lastRefresh.peer # NoToken /\ lastRefresh.peer # lastRefresh.access
    /\ tokenState.accessToken = lastRefresh.access
    /\ tokenState.accountId = "acctB"

(* C4: the step in which ensureValidToken returns after a refresh leaves   *)
(* the access token and expiry that refresh produced, and the account      *)
(* identifier derived from that access token.                               *)
C4_RefreshReturn ==
    [][\A p \in Procs : ReturnsRefreshed(p) =>
          /\ lastRefresh'.by = p /\ lastRefresh'.type = "success"
          /\ tokenState'.accessToken = lastRefresh'.access
          /\ tokenState'.expires = lastRefresh'.expires
          /\ getAccountId(tokenState'.accessToken)
                = [threw |-> FALSE, value |-> tokenState'.accountId]]_vars

(* A handler is past a relay refresh that changed the account. *)
C4_Witness ==
    \E h \in Handlers :
        /\ pc[h] = "validated" /\ lastRefresh.by = h
        /\ lastRefresh.type = "success" /\ tokenState.relayUrl # ""
        /\ tokenState.accessToken = FreshB /\ tokenState.accountId = "acctB"

(* C5: a request whose method is not POST or whose path is not exactly     *)
(* /v1/responses is answered 404 and nothing else is done for it.          *)
C5_RouteGating ==
    \A h \in Handlers :
        (req[h].method # "" /\ (req[h].method # "POST" \/ req[h].url # ResponsesPath))
            => res[h] = Reply(404, "Not found") /\ trace[h] = <<"route">>

(* C6: a request whose ensureValidToken call threw is answered 401 with    *)
(* the re-authenticate error, and no backend call is issued for it.        *)
C6_AuthFailure401 ==
    \A h \in Handlers :
        "threw" \in Range(trace[h]) =>
            /\ pc[h] = "done"
            /\ res[h] = Reply(401, "OAuth token refresh failed. Re-authenticate.")
            /\ "backend" \notin Range(trace[h])
            /\ ~hdrs[h].sent

C6_Witness ==
    \E h \in Handlers :
        /\ "threw" \in Range(trace[h]) /\ res[h].heads = <<401>>
        /\ lastRefresh.by = h /\ lastRefresh.type = "threw"

(* C7: after a request was answered 401 because its refresh failed (and no *)
(* other caller's refresh succeeded meanwhile), the token state still      *)
(* needs a refresh, so the next request makes its own refresh attempt.     *)
C7_RetryAfter401 ==
    (lastRefresh.type = "threw" /\ lastRefresh.by \in Handlers
        /\ lastRefresh.peer = NoToken)
        => shouldRefreshToken(tokenState, now)

(* C8: a body that does not parse is answered 400 in the step that reads   *)
(* it; that step issues no refresh call and no backend call and leaves the *)
(* token state as it was, and it is the request's last step.               *)
C8_InvalidJson ==
    [][\A h \in Handlers :
          (pc[h] = "readBody" /\ req'[h].raw = "garbage") =>
              /\ res'[h] = Reply(400, "Invalid JSON body")
              /\ pc'[h] = "done"
              /\ trace'[h] = <<"route", "readBody", "parse">>
              /\ tokenState' = tokenState /\ call' = call /\ hdrs' = hdrs
              /\ lastRefresh' = lastRefresh]_vars

C8_Witness ==
    \E h \in Handlers :
        /\ req[h].raw = "garbage" /\ res[h].heads = <<400>>
        /\ shouldRefreshToken(tokenState, now)

(* C9 (as amended): shouldRefreshToken is true exactly when the expiry is  *)
(* less than 60 000 ms after the current time; at exactly 60 000 ms it is  *)
(* false.                                                                   *)
C9_RefreshMargin ==
    shouldRefreshToken(tokenState, now)
        <=> (tokenState.expires - now < RefreshMarginMs)

(* C9 as stated: true whenever the expiry is at most 60 000 ms away *)
C9_MarginInclusive ==
    shouldRefreshToken(tokenState, now)
        <=> (tokenState.expires - now <= RefreshMarginMs)

(* A handler's ensureValidToken call returned without a refresh when the   *)
(* expiry is exactly 60 000 ms away.                                        *)
C9_Witness ==
    /\ tokenState.expires - now = RefreshMarginMs
    /\ lastRefresh.type = "none"
    /\ \E h \in Handlers : pc[h] = "validated"

(* C10: a call of ensureValidToken on a state that needs no refresh issues *)
(* no refresh call and changes no field of the token state.                *)
C10_NoopWhenValid ==
    [][\A p \in Procs :
          (EntersEnsureValid(p) /\ ~shouldRefreshToken(tokenState, now)) =>
              /\ tokenState' = tokenState
              /\ pc'[p] = "validated"
              /\ call' = call
              /\ InFlight' = InFlight]_vars

(* A handler's ensureValidToken call returned on a relay-mode state that   *)
(* needed no refresh and was never refreshed.                               *)
C10_Witness ==
    \E h \in Handlers :
        /\ pc[h] = "validated" /\ ~shouldRefreshToken(tokenState, now)
        /\ lastRefresh.type = "none" /\ tokenState.relayUrl # ""

(* C11: the refresh mode is fixed.  No step changes the relay URL or key;  *)
(* a caller waits on the auth server only when the state has no relay URL  *)
(* and on the relay only when it has one; and a state with a relay URL     *)
(* keeps its refresh token in every step.                                   *)
C11_ModeFixed ==
    [][/\ tokenState'.relayUrl = tokenState.relayUrl
       /\ tokenState'.relayKey = tokenState.relayKey
       /\ \A p \in Procs :
             /\ pc'[p] = "authFetch" =>
                   tokenState'.relayUrl = "" /\ call'[p].kind = "auth"
             /\ pc'[p] = "relayFetch" =>
                   tokenState'.relayUrl # "" /\ call'[p].kind = "relay"
       /\ tokenState.relayUrl # "" =>
             tokenState'.refreshToken = tokenState.refreshToken]_vars

(* A state constructed with both a refresh token and a relay URL was       *)
(* refreshed, through the relay, and still holds the refresh token.        *)
C11_Witness ==
    /\ tokenState.relayUrl # "" /\ tokenState.refreshToken = "r1"
    /\ lastRefresh.type = "success"
    /\ tokenState.accessToken = lastRefresh.access

(* The failures of a refresh call that C12 lists *)
AuthExchangeFails(resp) ==
    \/ resp.throws                       \* transport error, unparsable response
    \/ ~resp.ok                          \* non-2xx status
    \/ resp.access_token = NoToken \/ resp.refresh_token = "" \/ ~resp.isNum

RelayFetchFails(resp) ==
    ~resp.throws /\ (~resp.ok \/ resp.access_token = NoToken \/ ~resp.isNum)

(* C12: the step in which a refresh call ends with one of the listed       *)
(* failures leaves every field of the token state as it was, and           *)
(* ensureValidToken throws (start() fails, a handler answers 401); for the *)
(* auth-server exchange the result is the failure tag.                      *)
C12_FailedRefresh ==
    [][\A p \in InFlight :
          (/\ pc'[p] # pc[p]
           /\ \/ lastNet'.kind = "auth" /\ AuthExchangeFails(lastNet'.resp)
              \/ lastNet'.kind = "relay" /\ RelayFetchFails(lastNet'.resp))
          => /\ tokenState' = tokenState
             /\ lastRefresh'.by = p /\ lastRefresh'.type = "threw"
             /\ pc'[p] = "done"
             /\ "threw" \in Range(trace'[p])
             /\ lastNet'.kind = "auth" =>
                   /\ lastRefresh'.access = Failed.access
                   /\ lastRefresh'.refresh = Failed.refresh
                   /\ lastRefresh'.expires = Failed.expires]_vars

(* A handler's auth-server exchange ended with a response that has an      *)
(* access token and an expiry but no refresh token.                        *)
C12_Witness ==
    /\ lastNet.kind = "auth" /\ lastNet.resp.ok
    /\ lastNet.resp.access_token = FreshA /\ lastNet.resp.refresh_token = ""
    /\ lastRefresh.by \in Handlers /\ lastRefresh.type = "threw"
    /\ tokenState.accessToken \in SeedTokens

(* A handler's relay fetch ended with a payload without a numeric          *)
(* expires_at.                                                              *)
C12_WitnessRelay ==
    /\ lastNet.kind = "relay" /\ lastNet.resp.ok /\ ~lastNet.resp.isNum
    /\ lastRefresh.by \in Handlers /\ lastRefresh.type = "threw"

(* The eager ensureValidToken call of start() has returned without a throw *)
EagerCheckPassed ==
    /\ "ensureValid" \in Range(trace[Starter])
    /\ "threw" \notin Range(trace[Starter])
    /\ pc[Starter] \notin {"idle", "authFetch", "relayFetch"}

(* C13: the socket listens, and a request is accepted or handled, only     *)
(* after the eager check of start() passed; when the eager check threw,    *)
(* start() is rejected, the server is not listening and nothing was        *)
(* published; the server info is published only once the socket listens,   *)
(* and start() is resolved only once the info is published.                *)
C13_StartOrder ==
    /\ (server = "listening" \/ accepted > 0
         \/ \E h \in Handlers : pc[h] # "idle") => EagerCheckPassed
    /\ "threw" \in Range(trace[Starter]) =>
          /\ started = "rejected" /\ server = "failed"
          /\ ~published /\ accepted = 0
    /\ published => server = "listening" /\ "listening" \in Range(trace[Starter])
    /\ started = "resolved" => published
    /\ (published /\ pc[Starter] = "written") => started = "pending"

(* start() refreshed the token, bound the socket, published the info and   *)
(* resolved, and a request is being served.                                 *)
C13_Witness ==
    /\ lastRefresh.by = Starter /\ lastRefresh.type = "success"
    /\ server = "listening" /\ published /\ started = "resolved"
    /\ \E h \in Handlers : pc[h] = "upstream"

(* The eager check threw: start() is rejected and the server is down. *)
C13_WitnessFailed ==
    /\ "threw" \in Range(trace[Starter]) /\ started = "rejected"
    /\ server = "failed"

(* The info is written while a request is already being served, before    *)
(* start() resolves.                                                        *)
C13_WitnessPublishing ==
    /\ published /\ started = "pending" /\ \E h \in Handlers : pc[h] # "idle"

(* The handler's reply is complete: one status line, one end *)
Replied(h) == pc[h] = "done" /\ Len(res[h].heads) = 1 /\ res[h].ends = 1

(* The text written to the handler's response, all writes together *)
Written(h) == Concat(res[h].body)

(* A usage-limit marker occurs in the body, whatever its letter case *)
HasUsageLimitMarker(body) ==
    \E i \in 1..Len(body) :
        body[i] \in { "usage_limit_reached", "Usage_Limit_Reached",
                      "rate_limit_exceeded", "usage_not_included",
                      "usage limit" }

(* C14: once the body b of a backend response with a non-2xx status s has  *)
(* been read, whatever wasStreaming is, the reply is complete, its body is *)
(* b in one write, its status is 429 when s = 404 and b holds a            *)
(* usage-limit marker in any letter case and s otherwise, and no chunk of  *)
(* the response was read as a stream.                                      *)
C14_ErrorPassthrough ==
    \A h \in Handlers :
        io[h].fin = "text" =>
            /\ ~isOk(io[h].status)
            /\ Replied(h)
            /\ res[h].body = <<io[h].text>>
            /\ res[h].heads =
                  <<IF io[h].status = 404 /\ HasUsageLimitMarker(io[h].text)
                    THEN 429 ELSE io[h].status>>
            /\ res[h].ctype = <<"application/json">>
            /\ io[h].got = <<>>

(* A streaming request got a 404 whose body has the marker in mixed case:  *)
(* the reply is 429 with that body.                                        *)
C14_Witness ==
    \E h \in Handlers :
        /\ io[h].fin = "text" /\ io[h].streaming /\ io[h].status = 404
        /\ io[h].text = <<"{code:", "Usage_Limit_Reached", "}">>
        /\ res[h].heads = <<429>>

(* A non-streaming request got a 500: passed through. *)
C14_WitnessOther ==
    \E h \in Handlers :
        /\ io[h].fin = "text" /\ ~io[h].streaming /\ io[h].status = 500
        /\ io[h].text = <<"rate_limit_exceeded">> /\ res[h].heads = <<500>>

(* s is a prefix of t *)
IsPrefix(s, t) == Len(s) <= Len(t) /\ SubSeq(t, 1, Len(s)) = s

(* The handler is in, or ended in, passthrough mode on a body *)
Passthrough(h) ==
    /\ io[h].streaming /\ isOk(io[h].status) /\ io[h].hasBody
    /\ pc[h] \in {"piping", "done"}

(* What holds of a handler in passthrough mode in every state *)
PassthroughState(h) ==
    /\ res[h].heads = <<200>>
    /\ res[h].ctype = <<"text/event-stream; charset=utf-8">>
    /\ IsPrefix(res[h].body, io[h].got)
    /\ pc[h] = "piping" => res[h].ends = 0 /\ io[h].fin = ""
    /\ pc[h] = "done" => io[h].fin \in {"eos", "error"} /\ res[h].ends = 1
    /\ io[h].fin = "eos" => res[h].body = io[h].got

C15_WitnessError ==
    \E h \in Handlers :
        /\ Passthrough(h) /\ io[h].fin = "error"
        /\ Len(io[h].got) = 1 /\ res[h].ends = 1

(* The handler ended buffering mode by reading the body to its end *)
BufferedToEnd(h) ==
    /\ ~io[h].streaming /\ isOk(io[h].status) /\ io[h].hasBody
    /\ io[h].fin = "eos"

(* The lines of the text the handler read *)
LinesRead(h) == split(Concat(io[h].got))

(* A line of the `data: ` prefix and the JSON text of one event whose type *)
(* is response.done or response.completed                                   *)
IsTerminalLine(line) ==
    /\ Len(line) = 2 /\ line[1] = DataPrefix /\ line[2] \in DOMAIN Events
    /\ Events[line[2]].type \in {"response.done", "response.completed"}

HasTerminalLine(lines) == \E i \in 1..Len(lines) : IsTerminalLine(lines[i])

(* The response payload of the first terminal line *)
FirstTerminalPayload(lines) ==
    LET i == CHOOSE k \in 1..Len(lines) :
                 /\ IsTerminalLine(lines[k])
                 /\ \A j \in 1..(k - 1) : ~IsTerminalLine(lines[j])
    IN Events[lines[i][2]].response

JsonReply(payload) ==
    [heads |-> <<200>>, ctype |-> <<"application/json; charset=utf-8">>,
     body |-> <<<<"{", payload, "}">>>>, ends |-> 1]

RawReply(text) ==
    [heads |-> <<200>>, ctype |-> <<"text/event-stream; charset=utf-8">>,
     body |-> <<text>>, ends |-> 1]

C16_WitnessSplit ==
    \E h \in Handlers :
        /\ BufferedToEnd(h)
        /\ io[h].got = << <<DataPrefix>>,
                          <<"ev_done_r1", NL, DataPrefix, "{garbage", NL>> >>
        /\ res[h] = JsonReply("r1")

(* C17: in buffering mode, when the text read has no terminal line, the    *)
(* reply is status 200 with an event-stream content type and the chunks    *)
(* read, concatenated in arrival order, as its body.                       *)
C17_RawFallback ==
    \A h \in Handlers :
        (BufferedToEnd(h) /\ ~HasTerminalLine(LinesRead(h))) =>
            res[h] = RawReply(Concat(io[h].got))

(* Two chunks without a terminal line (the second has a terminal event's   *)
(* JSON text, but on a line without the prefix) came back as raw text.     *)
C17_Witness ==
    \E h \in Handlers :
        /\ BufferedToEnd(h)
        /\ io[h].got = << <<DataPrefix, "ev_delta", NL, NL>>,
                          <<"ev_done_r1", NL, DataPrefix, "{garbage", NL>> >>
        /\ res[h].heads = <<200>>
        /\ Written(h) = <<DataPrefix, "ev_delta", NL, NL,
                          "ev_done_r1", NL, DataPrefix, "{garbage", NL>>

(* C18: in buffering mode a read error is answered 502 with the error body *)
(* only when no chunk had been read; after at least one chunk the reply is *)
(* the raw text read so far.                                                *)
C18_ReadErrorDegrades ==
    \A h \in Handlers :
        (~io[h].streaming /\ isOk(io[h].status) /\ io[h].fin = "error") =>
            IF io[h].got = <<>>
            THEN res[h] = Reply(502, "Failed to read upstream response")
            ELSE /\ res[h].heads # <<502>> /\ res[h].ends = 1
                 /\ Written(h) = Concat(io[h].got)

(* C19: every request the server accepted has its response ended, on every *)
(* path, once the I/O operations it waits on have ended; and a handler     *)
(* that is through with its request has ended the response, exactly once.  *)
C19_ResponseEnded ==
    /\ \A h \in Handlers :
          (pc[h] # "idle") ~> (pc[h] = "done" /\ res[h].ends = 1)
    /\ [](\A h \in Handlers : pc[h] = "done" => res[h].ends = 1)

(* A streaming request's response was ended after a read error cut the     *)
(* backend body short.                                                      *)
C19_Witness ==
    \E h \in Handlers :
        /\ pc[h] = "done" /\ res[h].ends = 1
        /\ io[h].streaming /\ io[h].fin = "error" /\ Len(io[h].got) = 1

(* C20: when the catch of createServer's callback ran for a request, either *)
(* nothing had been sent and the reply is 500 with the error body, or the  *)
(* headers had been sent and neither a 500 status nor the error body was   *)
(* written.                                                                 *)
C20_CatchWritesOnlyIfUnsent ==
    \A h \in Handlers :
        "catch" \in Range(trace[h]) =>
            \/ res[h] = Reply(500, "Internal proxy error")
            \/ /\ res[h].heads # <<>>
               /\ 500 \notin Range(res[h].heads)
               /\ <<"Internal proxy error">> \notin Range(res[h].body)

----------------------------------------------------------------------------
(* The request rewrite (C21 to C28), under SpecRewrite *)

Sent == rewritten.state = "sent"

(* C21: whenever the transformation of a request body returns, its         *)
(* wasStreaming is true exactly when the body's stream was the boolean     *)
(* true, and the returned body has stream true and store false whatever    *)
(* the body held in those two properties.                                  *)
C21_StreamFlag ==
    Sent =>
        /\ rewritten.wasStreaming <=> inbound.body.stream = Bool("true")
        /\ rewritten.transformed.stream = Bool("true")
        /\ rewritten.transformed.store = Bool("false")

C21_Witness ==
    /\ Sent /\ rewritten.wasStreaming
    /\ inbound.body.stream = Bool("true") /\ inbound.body.store = Bool("true")

C21_WitnessOther ==
    /\ Sent /\ ~rewritten.wasStreaming
    /\ inbound.body.stream = Str("true")

NotReference(item) == item.type # Str("item_reference")

(* C22: when the body's input is a sequence, the input of the returned     *)
(* body is that sequence without its item_reference items, the others in   *)
(* their order; none of them carries an id, whatever the id was, and every *)
(* other field of each is unchanged.                                       *)
C22_InputFiltered ==
    Sent /\ inbound.body.input.t = "array" =>
        LET kept == SelectSeq(inbound.body.input.items, NotReference)
            out == rewritten.transformed.input.items
        IN /\ Len(out) = Len(kept)
           /\ \A i \in 1..Len(kept) :
                 /\ out[i].id = Undefined
                 /\ out[i] = [kept[i] EXCEPT !.id = Undefined]

(* The supplied value of a property of the reasoning record, or the default *)
Supplied(value, default) ==
    IF inbound.body.reasoning.t = "object" /\ value # Undefined
    THEN value ELSE default

(* C23: in the returned body reasoning.effort is the effort the client     *)
(* supplied, "medium" when it supplied none, and reasoning.summary is the  *)
(* summary the client supplied, "auto" when it supplied none; each default *)
(* is applied on its own and a supplied field is never overwritten.        *)
C23_ReasoningDefaults ==
    Sent =>
        /\ rewritten.transformed.reasoning.effort
             = Supplied(inbound.body.reasoning.effort, Str("medium"))
        /\ rewritten.transformed.reasoning.summary
             = Supplied(inbound.body.reasoning.summary, Str("auto"))

(* C24: the include list of the returned body holds                        *)
(* reasoning.encrypted_content; the entries of the client's list are kept  *)
(* in their order; the entry is appended only when the list lacked it, and *)
(* a list of just that entry is made when include was absent.              *)
C24_IncludeEntry ==
    Sent =>
        LET given == inbound.body.include
            out == rewritten.transformed.include
        IN /\ out.t = "array"
           /\ EncryptedContent \in Range(out.items)
           /\ given.t = "array" /\ EncryptedContent \in Range(given.items)
                 => out.items = given.items
           /\ given.t = "array" /\ EncryptedContent \notin Range(given.items)
                 => out.items = given.items \o <<EncryptedContent>>
           /\ given.t \in {"undefined", "null"}
                 => out.items = <<EncryptedContent>>

C24_Witness ==
    /\ Sent
    /\ inbound.body.include
         = Compound("array", "", <<EncryptedContent, Str("other")>>)

C24_WitnessAppended ==
    /\ Sent
    /\ inbound.body.include = Compound("array", "", <<Str("other")>>)
    /\ Len(rewritten.transformed.include.items) = 2

C24_WitnessAbsent ==
    Sent /\ inbound.body.include = Absent

(* C25: the body sent to the backend holds neither max_output_tokens nor   *)
(* max_completion_tokens, and a property of the client's body that the     *)
(* proxy does not know has the value the client gave it.                   *)
C25_LegacyLimitsDropped ==
    Sent =>
        /\ rewritten.body.max_output_tokens = Undefined
        /\ rewritten.body.max_completion_tokens = Undefined
        /\ inbound.body.t = "object"
              => rewritten.body.metadata = inbound.body.metadata

C25_Witness ==
    /\ Sent
    /\ inbound.body.max_output_tokens = Num("100")
    /\ inbound.body.max_completion_tokens = Num("200")
    /\ inbound.body.metadata = Str("x")

(* C26: the headers of the backend call are the six the proxy builds from  *)
(* the access token and the account identifier of the token state, and     *)
(* nothing of the headers the client sent.                                 *)
C26_ProxyBuiltHeaders ==
    Sent =>
        rewritten.headers
          = [sent |-> TRUE,
             authorization |-> tokenState.accessToken,
             contentType |-> "application/json",
             accountId |-> tokenState.accountId,
             beta |-> "responses=experimental",
             originator |-> "codex_cli_rs",
             accept |-> "text/event-stream"]

C26_Witness ==
    /\ Sent
    /\ "accountId" \in DOMAIN inbound.headers
    /\ rewritten.headers.accountId = "acctA"

(* C27: for every non-empty model identifier m without a '/' and every     *)
(* prefix p, which may itself hold a '/', the model of the returned body   *)
(* for p + "/" + m is normalize(m): only the text after the last '/'       *)
(* counts.                                                                  *)
C27_PrefixIgnored ==
    \A p \in Prefixes, m \in ModelIds :
        Sent /\ inbound.body.model = Str(p \o "/" \o m)
            => rewritten.transformed.model = normalizeModel(Str(m)).value

C27_Witness ==
    /\ Sent
    /\ inbound.body.model = Str("a/b/GPT-5-Codex")
    /\ rewritten.transformed.model = Str("gpt-5.1-codex")

C27_WitnessUnknown ==
    /\ Sent
    /\ inbound.body.model = Str("vendor/Claude-X")
    /\ rewritten.transformed.model = Str("Claude-X")

(* An identifier that matches no table entry, exactly or without regard to *)
(* case, and holds no family substring                                      *)
Unknown(modelId) ==
    /\ \A key \in DOMAIN MODEL_MAP : toLower(key) # toLower(modelId)
    /\ \A i \in 1..Len(Patterns) : ~matches(toLower(modelId), i)

(* C28: normalize is total: for an absent, an empty and every other string *)
(* it returns a model name without failing, and for an identifier that     *)
(* matches no table entry and holds no family substring it returns the     *)
(* prefix-stripped identifier unchanged, in its letter case.               *)
C28_TotalAndVerbatim ==
    Sent /\ inbound.body.model.t \in {"undefined", "string"} =>
        /\ ~normalizeModel(inbound.body.model).threw
        /\ rewritten.transformed.model.t = "string"
        /\ inbound.body.model.s # ""
           /\ Unknown(lastSegment(inbound.body.model.s))
              => rewritten.transformed.model
                   = Str(lastSegment(inbound.body.model.s))

----------------------------------------------------------------------------
(* The token at the backend call and the bodies that parse (C29, C30),     *)
(* under SpecFlow                                                           *)

(* C29: whenever ensureValidToken returns successfully, the token state    *)
(* does not need a refresh at that moment, also when the refresh it just   *)
(* made gave a short-lived or already expired token.                       *)
C29_FreshOnReturn ==
    [][\A p \in Procs :
          pc[p] # "validated" /\ pc'[p] = "validated"
              => ~shouldRefreshToken(tokenState', now')]_vars

(* C30: a request whose body parsed as JSON, whatever JSON value it is, is *)
(* never answered 500: the transformation does not raise.                  *)
C30_ParsedNeverRaises ==
    \A h \in Handlers :
        "parse" \in Range(trace[h]) => 500 \notin Range(res[h].heads)

----------------------------------------------------------------------------
(* The downstream connection closing (C31), under SpecDisconnect *)

(* C31: in the streaming passthrough, once the downstream response has     *)
(* reported closed, no further chunk is written to it, though the reading  *)
(* of the backend response may go on.                                       *)
C31_NoWriteAfterClose ==
    [][\A h \in Handlers :
          pc[h] = "piping" /\ io[h].closed
              => res'[h].body = res[h].body]_vars

----------------------------------------------------------------------------
(* The expiry of the initial token state (C32), under SpecFlow *)

(* The token state still holds the access token the proxy was built with *)
HoldsInitialToken == tokenState.accessToken \in SeedTokens

(* C32: a token state built from an access token with an expiry claim has  *)
(* the claim times 1000 as its expiry; built from one without the claim it *)
(* has an expiry already in the past, so the eager check of start()        *)
(* refreshes it: while the state still holds that token, start() has not   *)
(* got past the check, the socket does not listen and no request was       *)
(* accepted.                                                                *)
C32_InitialExpiry ==
    HoldsInitialToken =>
        /\ tokenState.accessToken.exp # 0
              => tokenState.expires = tokenState.accessToken.exp * 1000
        /\ tokenState.accessToken.exp = 0
              => /\ tokenState.expires < now
                 /\ shouldRefreshToken(tokenState, now)
                 /\ pc[Starter] \in {"idle", "authFetch", "relayFetch", "done"}
                 /\ pc[Starter] = "done" => started = "rejected"
                 /\ server # "listening" /\ accepted = 0
                 /\ \A h \in Handlers : pc[h] = "idle"

(* The eager check is refreshing a token that came without the claim *)
C32_Witness ==
    /\ HoldsInitialToken /\ tokenState.accessToken.exp = 0
    /\ pc[Starter] \in {"authFetch", "relayFetch"}
    /\ "ensureValid" \in Range(trace[Starter])

(* With the claim, the eager check passed without a refresh *)
C32_WitnessClaim ==
    /\ HoldsInitialToken /\ tokenState.accessToken.exp # 0
    /\ tokenState.expires = 150000
    /\ lastRefresh.type = "none" /\ server = "listening"

(* After the refresh of a token without the claim, a request is served *)
C32_WitnessServed ==
    /\ ~HoldsInitialToken /\ lastRefresh.by = Starter
    /\ lastRefresh.type = "success" /\ now = StartNow
    /\ \E h \in Handlers : pc[h] = "upstream"


(* C33: a request is answered 401 only if the shared token state still     *)
(* needs a refresh at the moment of the answer: no request is rejected     *)
(* with 401 while the state holds a valid token, in particular one that a  *)
(* concurrent request's successful refresh installed.                      *)
C33_Rejected401NeedsRefresh ==
    [][\A h \in Handlers :
          (res[h].heads = <<>> /\ res'[h].heads = <<401>>)
              => shouldRefreshToken(tokenState', now')]_vars

(* the same, for the rejections during whose refresh call no attempt of    *)
(* the rejected request itself wrote to the token state                    *)
C33_RejectedBesideConcurrentSuccess ==
    [][\A h \in Handlers :
          (/\ res[h].heads = <<>> /\ res'[h].heads = <<401>>
           /\ call[h].peer # NoToken
           /\ tokenState' = tokenState)
              => shouldRefreshToken(tokenState', now')]_vars


(* C34: for every request, on every path through the handler and the catch *)
(* of createServer's callback, the status line of the response is written  *)
(* at most once and the response is ended at most once, a handler that is  *)
(* through with its request has written one status line and ended the      *)
(* response once, and an ended response is not written to again (the      *)
(* handler's next request has a response of its own).                      *)
C34_HeadOnceEndOnce ==
    /\ [](\A h \in Handlers :
            /\ Len(res[h].heads) <= 1 /\ res[h].ends <= 1
            /\ res[h].ends = 1 => Len(res[h].heads) = 1
            /\ pc[h] = "done" => res[h].ends = 1)
    /\ [][\A h \in Handlers :
             res[h].ends >= 1 =>
                 \/ res'[h] = res[h]
                 \/ pc[h] = "done" /\ pc'[h] = "idle" /\ res'[h] = NoResponse]_vars

(* The catch ran on a response whose 200 head pipeStream had written: one  *)
(* status line, ended once.                                                 *)
C34_Witness ==
    \E h \in Handlers :
        /\ pc[h] = "done" /\ io[h].fin = "readerThrew"
        /\ "catch" \in Range(trace[h])
        /\ res[h].heads = <<200>> /\ res[h].ends = 1

(* The catch ran before anything was sent *)
C34_WitnessUnsent ==
    \E h \in Handlers :
        /\ pc[h] = "done" /\ "catch" \in Range(trace[h])
        /\ res[h].heads = <<500>> /\ res[h].ends = 1

(* A buffered response whose read loop failed: 502, ended once *)
C34_WitnessReadError ==
    \E h \in Handlers :
        /\ pc[h] = "done" /\ ~io[h].streaming /\ io[h].fin = "error"
        /\ res[h].heads = <<502>> /\ res[h].ends = 1


----------------------------------------------------------------------------
(* Normalizing twice (C35), under SpecRewrite *)

(* C35: normalizing is idempotent: for every model of a request body that  *)
(* is absent or a string, the empty string and the identifiers that end    *)
(* with "/" included, normalizing the normalized model succeeds and gives  *)
(* the normalized model again.                                              *)
C35_NormalizeIdempotent ==
    Sent /\ inbound.body.model.t \in {"undefined", "string"} =>
        LET once == rewritten.transformed.model
        IN /\ ~normalizeModel(once).threw
           /\ normalizeModel(once).value = once

(* the same, except for the models whose last segment is empty or names a  *)
(* property that MODEL_MAP inherits                                         *)
C35_IdempotentOnOrdinaryNames ==
    (/\ Sent /\ inbound.body.model.t \in {"undefined", "string"}
     /\ inbound.body.model.t = "string" /\ inbound.body.model.s # ""
            => /\ lastSegment(inbound.body.model.s) # ""
               /\ lastSegment(inbound.body.model.s) \notin DOMAIN ObjectPrototype)
        => LET once == rewritten.transformed.model
           IN /\ ~normalizeModel(once).threw
              /\ normalizeModel(once).value = once

=============================================================================
